---- MODULE Spec2Model ----
(***************************************************************************)
(* gen-toc: a browser extension that extracts the headings of a page and   *)
(* shows them in a sidebar.  The repository holds two versions of the page *)
(* agent: src/content.js (headings h1-h4, debounced mutation refresh,      *)
(* periodic sweep) and the copy in src/background.js lines 238-1044        *)
(* (headings h1-h3, bounded auto-refresh).  The variable `variant` says    *)
(* which of the two is running.                                            *)
(***************************************************************************)
EXTENDS Integers, Sequences, FiniteSets, TLC

VARIABLES
  variant,   \* "content" (src/content.js) or "background" (src/background.js:238-1044)
  doc,       \* the live document: the elements under <body>, in document order
  result,    \* the value the last extractHeadings call returned (fresh: the document has not changed since)
  win,       \* the page agent's globals (window.*, script-level lets) and the page's load state
  store,     \* localStorage: the persisted preferences
  timers,    \* the pending setTimeout / setInterval timers, in the order they were set
  list,      \* the children of #any-toc-list: one entry per rendered heading
  obs,       \* what the last handler did (observation only)
  ghost,     \* history the claims speak of (observation only)
  host,      \* the host coordinator (src/background.js:1-237): injectedTabs, the tabs, callbacks in flight, the relays
  popup      \* the popup (src/popup.js): its status line and the commands it waits on

agentVars == <<win, store, timers, list, obs, ghost>>
hostVars == <<host, popup>>
vars == <<variant, doc, result, win, store, timers, list, obs, ghost, host, popup>>

Variants == {"content", "background"}

\* no extraction result at hand
NoResult == [fresh |-> FALSE, headings |-> <<>>]

\* ---------------------------------------------------------------- bounds
MaxElems == 3      \* elements the page holds at most
MaxAgentElems == 2 \* page elements of a document the page agent runs in
MaxEvents == 2     \* user and page events of one run of the page agent
MaxPrefEvents == 4 \* toggles, position changes and reloads of one run
MaxPageEvents == 3 \* page changes of one run of scrolling
MaxPending == 2    \* highlight timers pending on one element

\* ------------------------------------------------------------------- DOM
(* An element is a record; `depth` encodes the tree in document order: the *)
(* children of element i are the following elements of depth depth[i]+1 up *)
(* to the next element of depth <= depth[i].  <body> is the root, index 0. *)
BODY == 0
NULL == -1

Min(a, b) == IF a < b THEN a ELSE b
Max(a, b) == IF a > b THEN a ELSE b

\* style.backgroundColor and style.display are the inline styles ("": not set);
\* firstId is a ghost, the first id the element ever carried; ext marks the
\* elements the extension itself created; restore holds the colours the pending
\* highlight timers of the element will write back, oldest first
Elem(tagName, id, cls, text, depth) ==
  [tagName |-> tagName, id |-> id, cls |-> cls, text |-> text, depth |-> depth,
   backgroundColor |-> "", display |-> "", firstId |-> id, ext |-> FALSE,
   restore |-> <<>>]

\* j is a descendant of i (i = BODY: every element is)
IsDescendant(d, i, j) ==
  IF i = BODY THEN j \in 1..Len(d)
  ELSE /\ j \in (i+1)..Len(d)
       /\ \A k \in (i+1)..j : d[k].depth > d[i].depth

\* the last index of the subtree rooted at i
SubtreeEnd(d, i) ==
  IF \E j \in 1..Len(d) : IsDescendant(d, i, j)
  THEN CHOOSE j \in 1..Len(d) :
         IsDescendant(d, i, j) /\ \A k \in 1..Len(d) : IsDescendant(d, i, k) => k <= j
  ELSE i

\* the least member of a set of indices, or NULL
FirstOf(S) == IF S = {} THEN NULL ELSE CHOOSE i \in S : \A k \in S : i <= k

\* document.getElementById(id): the first element in document order with that id
getElementById(d, id) ==
  IF id = "" THEN NULL ELSE FirstOf({i \in 1..Len(d) : d[i].id = id})

\* document.querySelector('<tag>')
querySelectorTag(d, tagName) == FirstOf({i \in 1..Len(d) : d[i].tagName = tagName})

\* document.querySelector('.<class>')
querySelectorClass(d, c) == FirstOf({i \in 1..Len(d) : c \in d[i].cls})

\* the increasing sequence of the members of a set of indices
RECURSIVE SortedSeq(_)
SortedSeq(S) ==
  IF S = {} THEN <<>>
  ELSE LET m == CHOOSE x \in S : \A y \in S : x <= y
       IN <<m>> \o SortedSeq(S \ {m})

\* tag names are sequences of characters, upper case as the DOM reports them
TagH(n) == <<"H", CASE n = 1 -> "1" [] n = 2 -> "2" [] n = 3 -> "3"
                    [] n = 4 -> "4" [] n = 5 -> "5" [] OTHER -> "6">>
TagDIV == <<"D", "I", "V">>
TagP == <<"P">>
TagARTICLE == <<"A", "R", "T", "I", "C", "L", "E">>
TagMAIN == <<"M", "A", "I", "N">>
TagUL == <<"U", "L">>

\* ------------------------------------------------------ heading extractor
\* the levels of the selector 'h1, h2, h3, h4' (content.js) / 'h1, h2, h3'
SelectorLevels(v) == IF v = "content" THEN {1, 2, 3, 4} ELSE {1, 2, 3}

\* element e matches the selector 'h1, ..., hN'
MatchesHeadingSelector(e, levels) == \E n \in levels : e.tagName = TagH(n)

\* root.querySelectorAll('h1, ...'): the matching descendants in document order
querySelectorAll(d, root, levels) ==
  SortedSeq({j \in 1..Len(d) :
               IsDescendant(d, root, j) /\ MatchesHeadingSelector(d[j], levels)})

\* String.prototype.trim
Whitespace == {" ", "\n"}
RECURSIVE TrimStart(_)
TrimStart(s) ==
  IF s # <<>> /\ Head(s) \in Whitespace THEN TrimStart(Tail(s)) ELSE s
RECURSIVE TrimEnd(_)
TrimEnd(s) ==
  IF s # <<>> /\ s[Len(s)] \in Whitespace THEN TrimEnd(SubSeq(s, 1, Len(s) - 1)) ELSE s
\* (mutant: the trailing pass forgotten)
MutTrimStartOnly(s) == TrimStart(s)
Trim(s) == TrimEnd(TrimStart(s))

\* Node.textContent: the element's own text and that of its descendants
RECURSIVE ConcatText(_, _, _)
ConcatText(d, i, last) ==
  IF i > last THEN <<>> ELSE d[i].text \o ConcatText(d, i + 1, last)
textContent(d, i) == ConcatText(d, i, SubtreeEnd(d, i))

\* parseInt(s, 10) of a digit string
DigitVal(c) == CASE c = "0" -> 0 [] c = "1" -> 1 [] c = "2" -> 2 [] c = "3" -> 3
                 [] c = "4" -> 4 [] c = "5" -> 5 [] c = "6" -> 6 [] c = "7" -> 7
                 [] c = "8" -> 8 [] OTHER -> 9
RECURSIVE ParseDigits(_, _)
ParseDigits(s, acc) ==
  IF s = <<>> THEN acc ELSE ParseDigits(Tail(s), acc * 10 + DigitVal(Head(s)))
parseInt(s) == ParseDigits(s, 0)

\* heading.tagName.substring(1)
Substring1(s) == Tail(s)

\* getBoundingClientRect().top + window.pageYOffset: the layout puts one element
\* per row, so the offset of an element is its row in document order
OffsetTop(d, i) == i

\* `toc-heading-${index}`
GeneratedId(index) == "toc-heading-" \o ToString(index)

\* if (!text): the heading is skipped
IsEmptyText(text) == text = <<>>

\* if (!heading.id): the heading gets a generated id
\* (mutant: the id is assigned unconditionally)
MutAlwaysLacksId(e) == TRUE
LacksId(e) == e.id = ""

\* the first non-null container of the preference list
MutClassFirst(d) ==
  << querySelectorClass(d, "content"),
     querySelectorClass(d, "article"),
     getElementById(d, "main"),
     getElementById(d, "content"),
     getElementById(d, "article"),
     querySelectorTag(d, TagARTICLE),
     querySelectorTag(d, TagMAIN),
     BODY >>
ContainerList(d) ==
  << getElementById(d, "main"),
     getElementById(d, "content"),
     getElementById(d, "article"),
     querySelectorTag(d, TagARTICLE),
     querySelectorTag(d, TagMAIN),
     querySelectorClass(d, "content"),
     querySelectorClass(d, "article"),
     BODY >>

RECURSIVE FirstNonNull(_)
FirstNonNull(s) ==
  IF s = <<>> THEN BODY
  ELSE IF Head(s) # NULL THEN Head(s) ELSE FirstNonNull(Tail(s))

mainContainer(d) == FirstNonNull(ContainerList(d))

\* if (headingElements.length === 0): search the entire document
\* (mutant: the fallback forgotten)
MutNeverFallBack(els) == FALSE
NoneInContainer(els) == Len(els) = 0

\* the elements extractHeadings iterates over
headingElements(d, v) ==
  LET inContainer == querySelectorAll(d, mainContainer(d), SelectorLevels(v))
  IN IF NoneInContainer(inContainer)
     THEN querySelectorAll(d, BODY, SelectorLevels(v))
     ELSE inContainer

\* headingElements.forEach((heading, index) => ...)
RECURSIVE ForEachHeading(_, _, _, _)
ForEachHeading(d, els, index, headings) ==
  IF index >= Len(els) THEN [doc |-> d, headings |-> headings]
  ELSE LET i == els[index + 1]
           text == Trim(textContent(d, i))
       IN IF IsEmptyText(text)
          THEN ForEachHeading(d, els, index + 1, headings)
          ELSE LET level == parseInt(Substring1(d[i].tagName))
                   position == OffsetTop(d, i)
                   d2 == IF LacksId(d[i])
                         THEN [d EXCEPT ![i].id = GeneratedId(index)]
                         ELSE d
                   rec == [text |-> text, level |-> level,
                           id |-> d2[i].id, position |-> position]
               IN ForEachHeading(d2, els, index + 1, Append(headings, rec))

\* window.extractHeadings: the document as it leaves it, and the records returned
extractHeadings(d, v) == ForEachHeading(d, headingElements(d, v), 0, <<>>)


\* ------------------------------------------------------------ page agent
\* intervals of the source, in milliseconds
THROTTLE_MS == 500          \* minimum time between two non-forced refreshes
RETRY_MS == 1500            \* delayed retry of an extraction that found nothing
DEBOUNCE_MS == 2000         \* quiet period after a relevant mutation
SWEEP_MS == 2000            \* period of the periodic sweep
INIT_RETRY_MS == 1000       \* fallback timer of initOnDOMContentLoaded
FINAL_REFRESH_MS == 3000    \* delayed refresh at the end of initTOC (content.js)
AUTO_REFRESH_MS == 5000     \* interval of the auto-refresh sequence (background.js)
maxRefreshes == 3           \* attempts of one auto-refresh sequence (background.js)
SIZE_DELTA == 50            \* body size change the sweep reacts to

\* the clock advances in steps of half the shortest interval
TimeUnit == THROTTLE_MS \div 2

\* window.lastRefreshTime / window.lastBodyLength not set yet
UNDEFINED == -1

\* time since an event, counted up to `cap` only
Elapse(since, cap) == IF since = UNDEFINED THEN UNDEFINED ELSE Min(since + TimeUnit, cap)

\* the state a handler works on
Machine(v, d, w, st, tm, l, o) ==
  [variant |-> v, doc |-> d, win |-> w, store |-> st, timers |-> tm, list |-> l, obs |-> o]

\* what a handler did: refreshTOC calls by kind, extractions and list builds made
ZeroObs(op) ==
  [op |-> op, forced |-> 0, unforced |-> 0, stub |-> 0, dropped |-> 0,
   extracted |-> 0, builds |-> 0, id |-> "", position |-> 0,
   action |-> "", thrown |-> FALSE, responses |-> <<>>]

\* window.* and script-level state before the content script has run
InitWin(readyState) ==
  [ readyState |-> readyState,        \* document.readyState: "loading" or "complete"
    script |-> FALSE,                 \* the content script has run in this document
    domListener |-> FALSE,            \* DOMContentLoaded listener registered
    fullRefresh |-> FALSE,            \* window.refreshTOC is the full implementation
    isInitialized |-> FALSE,          \* window.isInitialized
    initTocTimeout |-> FALSE,         \* initTocTimeout holds a handle
    sinceRefresh |-> UNDEFINED,       \* Date.now() - window.lastRefreshTime
    tocRefreshInterval |-> FALSE,     \* window.tocRefreshInterval holds a handle
    lastBodyLength |-> UNDEFINED,     \* window.lastBodyLength
    isUserInteractingWithTOC |-> FALSE,
    listeners |-> FALSE,              \* visibilitychange and mouse listeners registered
    hidden |-> FALSE,                 \* document.hidden
    scrollY |-> 0,                    \* the scroll offset last requested
    observer |-> FALSE,               \* the MutationObserver observes document.body
    refreshTimeout |-> FALSE ]        \* refreshTimeout of throttledRefresh holds a handle

InitStore == [position |-> "", visibility |-> ""]

NoGhost ==
  [ shown |-> [known |-> FALSE, position |-> "", visibility |-> ""],
    sinceMutation |-> UNDEFINED,      \* time since the last relevant mutation
    pending |-> FALSE,                \* a relevant mutation was observed, no debounced refresh since
    sinceExtract |-> UNDEFINED,       \* time since refreshTOC last extracted
    inside |-> FALSE,                 \* the sidebar saw a mouseenter and no mouseleave since
    pressed |-> FALSE,                \* the sidebar saw a mousedown and no mouseup since
    events |-> 0,                     \* user and page events so far
    budget |-> 0 ]                    \* user and page events this run may take

\* setTimeout / setInterval: `current` marks the timer whose handle the variable
\* of its kind holds; n is the refreshCount of an auto-refresh sequence
Timer(kind, left, current, n) == [kind |-> kind, left |-> left, current |-> current, n |-> n]

setTimeout(s, kind, ms, current, n) ==
  [s EXCEPT !.timers = Append(@, Timer(kind, ms, current, n))]

\* clearTimeout(handle) / clearInterval(handle) of the handle a variable holds
clearTimeout(s, kind) ==
  LET Keep(t) == ~(t.kind = kind /\ t.current)
  IN [s EXCEPT !.timers = SelectSeq(@, Keep)]

\* the sidebar initTOC builds: root, title, the two placeholders, the list, and
\* the collapsed button
Chars_TableOfContents ==
  <<"T", "a", "b", "l", "e", " ", "o", "f", " ", "C", "o", "n", "t", "e", "n", "t", "s">>

Own(e) == [e EXCEPT !.ext = TRUE]

SidebarElements ==
  << Own(Elem(TagDIV, "any-toc-sidebar", {"any-toc-sidebar"}, <<>>, 0)),
     Own(Elem(TagH(2), "", {}, Chars_TableOfContents, 1)),
     Own(Elem(TagDIV, "any-toc-loading", {}, <<>>, 1)),
     [Own(Elem(TagDIV, "any-toc-no-headings", {}, <<>>, 1)) EXCEPT !.display = "none"],
     Own(Elem(TagUL, "any-toc-list", {}, <<>>, 1)) >>

CollapsedButton == Own(Elem(TagDIV, "any-toc-collapsed", {"any-toc-collapsed"}, <<>>, 0))

\* document.body.innerHTML.length: tags, id and style attributes, text, list items
OuterLength(e) ==
  2 * Len(e.tagName) + 5 + Len(e.text)
  + (IF e.id = "" THEN 0 ELSE 6 + Len(e.id))
  + (IF e.display = "" THEN 0 ELSE 18 + Len(e.display))
  + (IF e.backgroundColor = "" THEN 0 ELSE 27 + Len(e.backgroundColor))

ItemLength(h) == 49 + Len(h.text)

RECURSIVE SumLengths(_, _, _)
SumLengths(d, l, i) ==
  IF i > Len(d) + Len(l) THEN 0
  ELSE (IF i <= Len(d) THEN OuterLength(d[i]) ELSE ItemLength(l[i - Len(d)]))
       + SumLengths(d, l, i + 1)

BodyLength(s) == SumLengths(s.doc, s.list, 1)

\* buildTOC: content.js appends to the list, background.js replaces its children
ListAfterBuild(s, headings) ==
  IF s.variant = "content" THEN s.list \o headings ELSE headings

buildTOC(s, headings) ==
  LET tocList == getElementById(s.doc, "any-toc-list")
      loadingElement == getElementById(s.doc, "any-toc-loading")
  IN IF loadingElement = NULL \/ tocList = NULL THEN s   \* TypeError, caught by the caller
     ELSE [s EXCEPT !.doc[loadingElement].display = "none",
                    !.list = ListAfterBuild(s, headings),
                    !.obs.builds = @ + 1]

\* if (!force && window.lastRefreshTime) { if (elapsed < 500) return; }
\* (mutant: a forced call is throttled like any other)
MutThrottleForced(force, since) == since # UNDEFINED /\ since < THROTTLE_MS
Throttled(force, since) == ~force /\ since # UNDEFINED /\ since < THROTTLE_MS

\* window.lastRefreshTime = Date.now()
StampRefresh(s, force) == [s EXCEPT !.win.sinceRefresh = 0]

\* window.refreshTOC, the full implementation
windowRefreshTOC(s, force) ==
  LET tocList == getElementById(s.doc, "any-toc-list")
      loadingElement == getElementById(s.doc, "any-toc-loading")
      noHeadingsElement == getElementById(s.doc, "any-toc-no-headings")
      s0 == IF force THEN [s EXCEPT !.obs.forced = @ + 1]
                     ELSE [s EXCEPT !.obs.unforced = @ + 1]
  IN IF tocList = NULL \/ loadingElement = NULL \/ noHeadingsElement = NULL THEN s0
     ELSE IF Throttled(force, s0.win.sinceRefresh)
          THEN [s0 EXCEPT !.obs.dropped = @ + 1]
          ELSE LET s1 == [StampRefresh(s0, force) EXCEPT
                            !.list = <<>>,
                            !.doc[loadingElement].display = "block",
                            !.doc[noHeadingsElement].display = "none"]
                   r == extractHeadings(s1.doc, s1.variant)
                   s2 == [s1 EXCEPT !.doc = r.doc, !.obs.extracted = @ + 1]
               IN IF Len(r.headings) > 0
                  THEN buildTOC(s2, r.headings)
                  ELSE setTimeout(s2, "retry", RETRY_MS, FALSE, 0)

\* the early stub named refreshTOC: it calls window.refreshTOC once that is another function
refreshTOC(s, force) ==
  IF s.win.fullRefresh THEN windowRefreshTOC(s, force)
  ELSE [s EXCEPT !.obs.stub = @ + 1]

\* the callback of the retry timer of refreshTOC
\* (mutant: a retry that finds nothing schedules another retry)
MutRetryAgain(s) ==
  LET r == extractHeadings(s.doc, s.variant)
      s1 == [s EXCEPT !.doc = r.doc]
  IN IF Len(r.headings) > 0 THEN buildTOC(s1, r.headings)
     ELSE setTimeout(s1, "retry", RETRY_MS, FALSE, 0)
RetryCallback(s) ==
  LET loadingElement == getElementById(s.doc, "any-toc-loading")
      noHeadingsElement == getElementById(s.doc, "any-toc-no-headings")
      r == extractHeadings(s.doc, s.variant)
      s1 == [s EXCEPT !.doc = r.doc]
  IN IF Len(r.headings) > 0 THEN buildTOC(s1, r.headings)
     ELSE IF loadingElement # NULL /\ noHeadingsElement # NULL
          THEN [s1 EXCEPT !.doc[loadingElement].display = "none",
                          !.doc[noHeadingsElement].display = "block"]
          ELSE s1

\* autoRefreshAfterPageLoad / performRefresh (background.js), with refreshCount = n
performRefresh(s, n) ==
  LET loadingElement == getElementById(s.doc, "any-toc-loading")
  IN IF n >= maxRefreshes \/ loadingElement = NULL THEN s
     ELSE IF s.doc[loadingElement].display = "none" THEN s
     ELSE LET s1 == refreshTOC(s, TRUE)
          IN IF n + 1 < maxRefreshes
             THEN setTimeout(s1, "auto", AUTO_REFRESH_MS, FALSE, n + 1)
             ELSE s1

autoRefreshAfterPageLoad(s) == performRefresh(s, 0)

\* the callback of setInterval in setupPeriodicRefresh (content.js)
SweepCallback(s) ==
  LET tocSidebar == getElementById(s.doc, "any-toc-sidebar")
      currentBodyHTML == BodyLength(s)
  IN IF s.win.isUserInteractingWithTOC THEN s
     ELSE IF tocSidebar # NULL /\ "hidden" \notin s.doc[tocSidebar].cls
          THEN IF \/ s.win.lastBodyLength = UNDEFINED \/ s.win.lastBodyLength = 0
                  \/ currentBodyHTML - s.win.lastBodyLength > SIZE_DELTA
                  \/ s.win.lastBodyLength - currentBodyHTML > SIZE_DELTA
               THEN refreshTOC([s EXCEPT !.win.lastBodyLength = currentBodyHTML], FALSE)
               ELSE s
          ELSE s

\* setupPeriodicRefresh (content.js): one interval, the handle in window.tocRefreshInterval
\* (mutant: the earlier interval is not cleared)
MutNoClearInterval(s) ==
  [setTimeout(s, "sweep", SWEEP_MS, TRUE, 0) EXCEPT
     !.win.tocRefreshInterval = TRUE, !.win.listeners = TRUE]
setupPeriodicRefresh(s) ==
  LET s1 == IF s.win.tocRefreshInterval THEN clearTimeout(s, "sweep") ELSE s
  IN [setTimeout(s1, "sweep", SWEEP_MS, TRUE, 0) EXCEPT
        !.win.tocRefreshInterval = TRUE, !.win.listeners = TRUE]

\* the visibilitychange listener of setupPeriodicRefresh, after document.hidden changed
OnVisibilityChange(s) ==
  IF s.win.hidden
  THEN IF s.win.tocRefreshInterval
       THEN [clearTimeout(s, "sweep") EXCEPT !.win.tocRefreshInterval = FALSE]
       ELSE s
  ELSE IF ~s.win.tocRefreshInterval THEN setupPeriodicRefresh(s) ELSE s

\* the mousedown and mouseup listeners of setupPeriodicRefresh and the callback
\* of their timers
PRESS_RESET_MS == 5000
RELEASE_RESET_MS == 500

OnMouseDown(s) ==
  setTimeout([s EXCEPT !.win.isUserInteractingWithTOC = TRUE],
             "pressReset", PRESS_RESET_MS, FALSE, 0)

OnMouseUp(s) == setTimeout(s, "releaseReset", RELEASE_RESET_MS, FALSE, 0)

ResetInteracting(s) == [s EXCEPT !.win.isUserInteractingWithTOC = FALSE]

\* setupContentChangeDetection: the observer is attached to document.body
setupContentChangeDetection(s) == [s EXCEPT !.win.observer = TRUE]

\* throttledRefresh of setupContentChangeDetection (content.js); the background.js
\* version of the observer only logs
throttledRefresh(s) ==
  IF s.variant = "content"
  THEN LET s1 == IF s.win.refreshTimeout THEN clearTimeout(s, "debounce") ELSE s
       IN [setTimeout(s1, "debounce", DEBOUNCE_MS, TRUE, 0) EXCEPT !.win.refreshTimeout = TRUE]
  ELSE s

\* /^H[1-4]$/i.test(node.tagName)
IsH1to4(tagName) ==
  /\ Len(tagName) = 2
  /\ tagName[1] \in {"H", "h"}
  /\ tagName[2] \in {"1", "2", "3", "4"}

\* node.querySelector('h1, h2, h3, h4') ('h1, h2, h3' in background.js) on a subtree
SubtreeHasHeading(sub, v) ==
  \E j \in 2..Len(sub) : MatchesHeadingSelector(sub[j], SelectorLevels(v))

\* hasRelevantChanges for one added or removed node, given with its subtree
hasRelevantChanges(sub, v) == IsH1to4(sub[1].tagName) \/ SubtreeHasHeading(sub, v)

\* the MutationObserver callback
ObserverCallback(s, sub) ==
  IF s.win.observer /\ hasRelevantChanges(sub, s.variant) THEN throttledRefresh(s) ELSE s

\* localStorage.getItem / classList at the end of sidebar creation
SidebarClasses(st) ==
  {"any-toc-sidebar"} \cup (IF st.position = "left" THEN {"left"} ELSE {})
                      \cup (IF st.visibility = "hidden" THEN {"hidden"} ELSE {})

CollapsedClasses(st) ==
  {"any-toc-collapsed"} \cup (IF st.position = "left" THEN {"left"} ELSE {})
                        \cup (IF st.visibility = "hidden" THEN {"visible"} ELSE {})

\* initTOC: document.getElementById('any-toc-sidebar'), the check against duplicates
\* (mutant: the document is not looked at)
MutNoMarkerCheck(d) == FALSE
SidebarExists(d) == getElementById(d, "any-toc-sidebar") # NULL

\* initTOC
initTOC(s) ==
  IF s.win.isInitialized THEN s
  ELSE LET s1 == IF s.win.initTocTimeout
                 THEN [clearTimeout(s, "initToc") EXCEPT !.win.initTocTimeout = FALSE]
                 ELSE s
       IN IF SidebarExists(s1.doc)
          THEN [s1 EXCEPT !.win.isInitialized = TRUE]
          ELSE LET sidebar == [SidebarElements EXCEPT ![1].cls = SidebarClasses(s1.store)]
                   collapsed == [CollapsedButton EXCEPT !.cls = CollapsedClasses(s1.store)]
                   s2 == [s1 EXCEPT !.doc = @ \o sidebar \o <<collapsed>>, !.list = <<>>]
                   s3 == setupContentChangeDetection(s2)
               IN IF s.variant = "content"
                  THEN setTimeout([setupPeriodicRefresh(s3) EXCEPT !.win.isInitialized = TRUE],
                                  "finalRefresh", FINAL_REFRESH_MS, FALSE, 0)
                  ELSE refreshTOC([s3 EXCEPT !.win.isInitialized = TRUE], TRUE)

\* initOnDOMContentLoaded
initOnDOMContentLoaded(s) ==
  LET s1 == initTOC(s)
      s2 == IF s.variant = "content" THEN setupPeriodicRefresh(s1)
            ELSE autoRefreshAfterPageLoad(s1)
  IN [setTimeout(s2, "initToc", INIT_RETRY_MS, TRUE, 0) EXCEPT !.win.initTocTimeout = TRUE]

\* the callback of the fallback timer of initOnDOMContentLoaded
InitTimeoutCallback(s) ==
  LET s1 == initTOC(s)
  IN IF s.variant = "content"
     THEN IF ~s1.win.tocRefreshInterval THEN setupPeriodicRefresh(s1) ELSE s1
     ELSE autoRefreshAfterPageLoad(s1)

\* the top level of the content script
ContentScript(s) ==
  LET s0 == [s EXCEPT !.win.script = TRUE, !.win.isInitialized = FALSE,
                      !.win.initTocTimeout = FALSE, !.win.fullRefresh = FALSE]
      s1 == initTOC(s0)
      s2 == IF s1.win.readyState = "loading"
            THEN [s1 EXCEPT !.win.domListener = TRUE]
            ELSE initOnDOMContentLoaded(s1)
  IN [s2 EXCEPT !.win.fullRefresh = TRUE]

\* window.setPosition
\* (mutant: moving the sidebar also shows it)
MutSetPositionShows(s, position) ==
  LET tocSidebar == getElementById(s.doc, "any-toc-sidebar")
      collapsedButton == getElementById(s.doc, "any-toc-collapsed")
  IN IF tocSidebar = NULL \/ collapsedButton = NULL THEN s
     ELSE [s EXCEPT !.doc[tocSidebar].cls =
                       IF position = "left" THEN (@ \ {"hidden"}) \cup {"left"}
                       ELSE @ \ {"hidden", "left"},
                    !.doc[collapsedButton].cls =
                       IF position = "left" THEN @ \cup {"left"} ELSE @ \ {"left"},
                    !.store.position = IF position = "left" THEN "left" ELSE "right"]
setPosition(s, position) ==
  LET tocSidebar == getElementById(s.doc, "any-toc-sidebar")
      collapsedButton == getElementById(s.doc, "any-toc-collapsed")
  IN IF tocSidebar = NULL \/ collapsedButton = NULL THEN s
     ELSE IF position = "left"
          THEN [s EXCEPT !.doc[tocSidebar].cls = @ \cup {"left"},
                         !.doc[collapsedButton].cls = @ \cup {"left"},
                         !.store.position = "left"]
          ELSE [s EXCEPT !.doc[tocSidebar].cls = @ \ {"left"},
                         !.doc[collapsedButton].cls = @ \ {"left"},
                         !.store.position = "right"]

\* window.togglePosition
togglePosition(s) ==
  LET tocSidebar == getElementById(s.doc, "any-toc-sidebar")
      collapsedButton == getElementById(s.doc, "any-toc-collapsed")
  IN IF tocSidebar = NULL \/ collapsedButton = NULL THEN s
     ELSE IF "left" \in s.doc[tocSidebar].cls THEN setPosition(s, "right")
          ELSE setPosition(s, "left")

\* localStorage.setItem('any-toc-visibility', ...)
\* (mutant: hiding is not persisted)
MutPersistShowOnly(s, value) ==
  IF value = "hidden" THEN s ELSE [s EXCEPT !.store.visibility = value]
PersistVisibility(s, value) == [s EXCEPT !.store.visibility = value]

\* toggleTOCSidebar: refreshTOC(true) when the sidebar is shown again
\* (mutant: the refresh is not forced)
MutShowRefreshUnforced == FALSE
ShowRefreshForce == TRUE

\* window.toggleTOCSidebar
toggleTOCSidebar(s) ==
  LET tocSidebar == getElementById(s.doc, "any-toc-sidebar")
      collapsedButton == getElementById(s.doc, "any-toc-collapsed")
  IN IF tocSidebar = NULL \/ collapsedButton = NULL THEN s
     ELSE IF "hidden" \in s.doc[tocSidebar].cls
          THEN LET s1 == PersistVisibility(
                           [s EXCEPT !.doc[tocSidebar].cls = @ \ {"hidden"},
                                     !.doc[collapsedButton].cls = @ \ {"visible"}],
                           "visible")
                   s2 == refreshTOC(s1, ShowRefreshForce)
               IN IF s.variant = "content"
                  THEN IF ~s2.win.tocRefreshInterval THEN setupPeriodicRefresh(s2) ELSE s2
                  ELSE autoRefreshAfterPageLoad(s2)
          ELSE PersistVisibility(
                 [s EXCEPT !.doc[tocSidebar].cls = @ \cup {"hidden"},
                           !.doc[collapsedButton].cls = @ \cup {"visible"}],
                 "hidden")

\* element.style.backgroundColor of a highlighted heading
HIGHLIGHT == "#fffad1"

\* where scrollToHeading scrolls: to the element found, else to the recorded offset
\* (mutant: the recorded offset is used even when the element is found)
MutScrollToRecorded(d, element, position) == position
ScrollTarget(d, element, position) ==
  IF element # NULL THEN OffsetTop(d, element) ELSE position

\* window.scrollToHeading
scrollToHeading(s, id, position) ==
  LET element == getElementById(s.doc, id)
      s1 == [s EXCEPT !.win.scrollY = ScrollTarget(s.doc, element, position)]
  IN IF element # NULL
     THEN [s1 EXCEPT !.doc[element].restore = Append(@, s.doc[element].backgroundColor),
                     !.doc[element].backgroundColor = HIGHLIGHT]
     ELSE s1

\* the callback of the oldest highlight timer of the element at i
HighlightCallback(s, i) ==
  [s EXCEPT !.doc[i].backgroundColor = Head(s.doc[i].restore),
            !.doc[i].restore = Tail(@)]

\* the 'refresh' action of the message listener and the click on the refresh
\* button: refreshTOC() in content.js; refreshTOC(true) and a new auto-refresh
\* sequence in background.js
MutStampFirst(s) ==
  IF s.variant = "content" THEN refreshTOC(StampRefresh(s, FALSE), FALSE)
  ELSE autoRefreshAfterPageLoad(refreshTOC(StampRefresh(s, TRUE), TRUE))
UserRefresh(s) ==
  IF s.variant = "content" THEN refreshTOC(s, FALSE)
  ELSE autoRefreshAfterPageLoad(refreshTOC(s, TRUE))

\* ------------------------------------------------------------- page input
\* what the page's own scripts insert: headings of several levels, with and
\* without text and ids, a paragraph, and two kinds of content container.  The
\* page keeps its own ids unique and uses none of the form toc-heading-<n>.
PageLeaves ==
  { Elem(TagH(1), "", {}, <<"a">>, 0),
    Elem(TagH(2), "", {}, <<" ", "b", "\n">>, 0),
    Elem(TagH(3), "", {}, <<" ", " ">>, 0),
    Elem(TagH(4), "x", {}, <<"a">>, 0),
    Elem(TagH(5), "", {}, <<"a">>, 0),
    Elem(TagP, "", {}, <<"a">>, 0) }

PageContainers ==
  { Elem(TagDIV, "main", {}, <<>>, 0),
    Elem(TagDIV, "", {"content"}, <<>>, 0) }

PageIdFree(d, e) == e.id = "" \/ getElementById(d, e.id) = NULL

IsContainer(e) == e.tagName \in {TagDIV, TagARTICLE, TagMAIN}

InsertAt(d, p, e) == SubSeq(d, 1, p - 1) \o <<e>> \o SubSeq(d, p, Len(d))

RemoveSubtree(d, p) == SubSeq(d, 1, p - 1) \o SubSeq(d, SubtreeEnd(d, p) + 1, Len(d))

\* a ghost: the first id an element ever carried (used to state "never overwritten")
RememberFirstIds(d) ==
  [i \in 1..Len(d) |->
     IF d[i].firstId = "" THEN [d[i] EXCEPT !.firstId = d[i].id] ELSE d[i]]

\* the page inserts a leaf or a container as a child of <body>, before element p
PageInsertTop(p, e) ==
  /\ Len(doc) < MaxElems
  /\ p \in 1..(Len(doc) + 1)
  /\ p <= Len(doc) => doc[p].depth = 0
  /\ PageIdFree(doc, e)
  /\ doc' = InsertAt(doc, p, e)
  /\ result' = NoResult
  /\ UNCHANGED <<variant, agentVars, host, popup>>

\* the page inserts a leaf as the first child of the container at p - 1, or after
\* a child of a container
PageInsertChild(p, e) ==
  /\ Len(doc) < MaxElems
  /\ p \in 2..(Len(doc) + 1)
  /\ \/ doc[p - 1].depth = 0 /\ IsContainer(doc[p - 1])
     \/ doc[p - 1].depth = 1
  /\ PageIdFree(doc, e)
  /\ doc' = InsertAt(doc, p, [e EXCEPT !.depth = 1])
  /\ result' = NoResult
  /\ UNCHANGED <<variant, agentVars, host, popup>>

\* the page removes the element at p with its subtree
PageRemove(p) ==
  /\ p \in 1..Len(doc)
  /\ doc' = RemoveSubtree(doc, p)
  /\ result' = NoResult
  /\ UNCHANGED <<variant, agentVars, host, popup>>

\* the 'getHeadings' action of the message listener: extractHeadings(), sendResponse
GetHeadings ==
  /\ LET r == extractHeadings(doc, variant)
     IN /\ doc' = RememberFirstIds(r.doc)
        /\ result' = [fresh |-> TRUE, headings |-> r.headings]
  /\ obs' = ZeroObs("getHeadings")
  /\ UNCHANGED <<variant, win, store, timers, list, ghost, host, popup>>

\* ---------------------------------------------------------------------------
\* Host coordinator (src/background.js:1-237) and popup (src/popup.js).
\* A tab is abstracted to what the coordinator can observe of it: whether it
\* is open, whether a page agent is listening in its current document, and
\* whether chrome.scripting.executeScript succeeds on its current page.
\* Every chrome.* call with a callback is a task in flight; its callback runs
\* in a later step, against the state the tab has by then.
\* ---------------------------------------------------------------------------
MaxTabs == 2       \* tabs the browser holds
MaxRelays == 2     \* popup commands issued in one run
MaxTabEvents == 2  \* navigations, closures and agent pings in one run

Tabs == 1..MaxTabs

PING == "ping"
TOGGLE_TOC == "toggleTOC"
REFRESH_TOC == "refreshTOC"
CHECK_STATUS == "checkContentScriptStatus"
RelayActions == {TOGGLE_TOC, REFRESH_TOC}

NOT_READY == "Content script not ready"
LAST_ERROR == "chrome.runtime.lastError"
NO_TAB_ID == "No tab ID found"
INJECT_FAILED == "Failed to inject content script"

Tab(injectable) ==
  [open |-> TRUE, loading |-> FALSE, agent |-> FALSE, injectable |-> injectable]

Task(kind, tab, relay) == [kind |-> kind, tab |-> tab, relay |-> relay]

\* the responses a relay can be answered with
Success == [success |-> "true", error |-> "undefined"]
Failure(error) == [success |-> "false", error |-> error]
AgentError == [success |-> "undefined", error |-> "handler"]
AgentResponses == {Success, AgentError}

HostIdle ==
  [injectedTabs |-> {},
   tabs |-> [t \in Tabs |-> Tab(TRUE)],
   tasks |-> {},
   relays |-> <<>>,
   inbox |-> <<>>,
   events |-> 0]

\* popup.js before its DOMContentLoaded listener has run: the startup check has
\* sent no ping (pending: the call whose callback it waits for)
StartupIdle ==
  [tab |-> 0, pings |-> 0, injections |-> 0, pending |-> "none",
   outcome |-> "none", status |-> "", isError |-> FALSE, controls |-> "initial",
   pageStatus |-> ""]

PopupIdle ==
  [status |-> "Ready", isError |-> FALSE, waiting |-> {}, response |-> Success,
   startup |-> StartupIdle]

\* injectedTabs[tabId] = { injected: true, timestamp }
MarkInjected(h, t) == [h EXCEPT !.injectedTabs = @ \cup {t}]

\* chrome.tabs.sendMessage / chrome.scripting.executeScript / setTimeout: the callback is pending
Pending(h, kind, t, r) == [h EXCEPT !.tasks = @ \cup {Task(kind, t, r)}]

sendResponse(h, r, response) ==
  [h EXCEPT !.relays[r].answers = Append(@, response)]

\* the name the page agent knows the action by
MutNoMapping(action) == action
contentAction(action) ==
  IF action = TOGGLE_TOC THEN "toggle"
  ELSE IF action = REFRESH_TOC THEN "refresh"
  ELSE action

\* { ready: true } and { ready: false, error }: the answers to a status request
StatusReady == [success |-> "undefined", error |-> "undefined"]
StatusFailed(error) == [success |-> "undefined", error |-> error]

\* the status check resolved ready: handleMessage answers a status request with
\* it; handleContentScriptAction forwards the mapped action to the tab
Forward(h, t, r) ==
  LET sent == [tab |-> t, action |-> contentAction(h.relays[r].action)]
  IN IF h.relays[r].action = CHECK_STATUS THEN sendResponse(h, r, StatusReady)
     ELSE Pending([h EXCEPT !.relays[r].forwards = Append(@, sent)], "forward", t, r)

\* the status check rejected: the answer of handleMessage to a status request,
\* and of handleContentScriptAction to a toggleTOC / refreshTOC message
NotReady(h, r) ==
  IF h.relays[r].action = CHECK_STATUS THEN StatusFailed(INJECT_FAILED)
  ELSE Failure(NOT_READY)

\* injectContentScript: chrome.scripting.executeScript is called
injectContentScript(h, t, r) ==
  LET counted == IF r = 0 THEN h ELSE [h EXCEPT !.relays[r].injections = @ + 1]
  IN Pending(counted, "inject", t, r)

\* checkContentScriptStatus, called for relay r: a recorded tab is ready without a probe
checkContentScriptStatus(h, t, r) ==
  IF t \in h.injectedTabs THEN Forward(h, t, r)
  ELSE Pending(h, "ping", t, r)

\* checkContentScriptInjection (from tabs.onUpdated): always probes
checkContentScriptInjection(h, t) == Pending(h, "ping", t, 0)

\* handleMessage for a checkContentScriptStatus / toggleTOC / refreshTOC message
\* of tab t
handleMessage(h, action, t) ==
  LET r == Len(h.relays) + 1
      relay == [tab |-> t, action |-> action, injections |-> 0,
                forwards |-> <<>>, answers |-> <<>>,
                agentAtStart |-> h.tabs[t].open /\ h.tabs[t].agent,
                disturbed |-> FALSE]
  IN checkContentScriptStatus([h EXCEPT !.relays = Append(@, relay)], t, r)

\* does the tab answer a message sent to it
Listening(h, t) == h.tabs[t].open /\ h.tabs[t].agent

\* the callback of the ping probe
\* (mutant: the script is injected whatever the probe found)
MutInjectAlways(h, task) ==
  injectContentScript([h EXCEPT !.tasks = @ \ {task}], task.tab, task.relay)
PingCallback(h, task) ==
  LET t == task.tab
      r == task.relay
      rest == [h EXCEPT !.tasks = @ \ {task}]
  IN IF ~Listening(h, t) THEN injectContentScript(rest, t, r)
     ELSE IF r = 0 THEN MarkInjected(rest, t)
     ELSE Forward(MarkInjected(rest, t), t, r)

\* a relay still waiting for its answer is disturbed when its tab changes
\* under it by something other than the relay itself (observation only)
Disturb(h, t, self) ==
  [h EXCEPT !.relays = [r \in 1..Len(h.relays) |->
      IF r # self /\ h.relays[r].tab = t /\ h.relays[r].answers = <<>>
      THEN [h.relays[r] EXCEPT !.disturbed = TRUE] ELSE h.relays[r]]]

\* the callback of chrome.scripting.executeScript
ExecuteScriptCallback(h, task) ==
  LET t == task.tab
      r == task.relay
      rest == [h EXCEPT !.tasks = @ \ {task}]
      ok == h.tabs[t].open /\ h.tabs[t].injectable
  IN IF ok THEN Pending(Disturb([rest EXCEPT !.tabs[t].agent = TRUE], t, r), "settle", t, r)
     ELSE IF r = 0 THEN rest
     ELSE sendResponse(rest, r, NotReady(rest, r))

\* setTimeout(resolve, 300) fires, and the .then of injectContentScript runs
SettleCallback(h, task) ==
  LET t == task.tab
      r == task.relay
      rest == MarkInjected([h EXCEPT !.tasks = @ \ {task}], t)
  IN IF r = 0 THEN rest ELSE Forward(rest, t, r)

\* the callback of the forwarded message
ForwardCallback(h, task, response) ==
  LET rest == [h EXCEPT !.tasks = @ \ {task}]
  IN IF Listening(h, task.tab) THEN sendResponse(rest, task.relay, response)
     ELSE sendResponse(rest, task.relay, Failure(LAST_ERROR))

\* chrome.runtime.onMessage for a ping sent by a page agent: dropped with its tab
AgentPingReceived(h, task) ==
  LET rest == [h EXCEPT !.tasks = @ \ {task}]
  IN IF h.tabs[task.tab].open THEN MarkInjected(rest, task.tab) ELSE rest

\* a message as the listener of chrome.runtime.onMessage sees it: sender is the
\* id of sender.tab and tabId is message.tabId (0: there is none)
HostMsg(action, sender, tabId) == [action |-> action, sender |-> sender, tabId |-> tabId]

\* the listener has run for message: response is what it passed to sendResponse
\* before it returned ("none": nothing), relay the asynchronous work it started
\* that ends in sendResponse (0: none)
Received(h, message, relay, response) ==
  [h EXCEPT !.inbox = Append(@, [message |-> message, relay |-> relay,
                                 response |-> response])]

\* the listener of chrome.runtime.onMessage with handleMessage: the ping of a
\* tab is recorded and answered; a message without tab id is answered with an
\* error; the three actions handleMessage knows start their asynchronous work;
\* for any other action handleMessage returns without a call of sendResponse
runtimeOnMessage(h, message) ==
  LET tabId == IF message.sender # 0 THEN message.sender ELSE message.tabId
  IN IF message.action = PING /\ message.sender # 0
     THEN Received(MarkInjected(h, message.sender), message, 0, "pong")
     ELSE IF tabId = 0 THEN Received(h, message, 0, NO_TAB_ID)
     ELSE IF message.action \in RelayActions \cup {CHECK_STATUS}
     THEN Received(handleMessage(h, message.action, tabId), message,
                   Len(h.relays) + 1, "none")
     ELSE Received(h, message, 0, "none")

\* chrome.tabs.onRemoved
ForgetTab(h, t) == [h EXCEPT !.injectedTabs = @ \ {t}]

\* popup.js: the .then of chrome.runtime.sendMessage, whatever the response holds
StatusDone(action) ==
  IF action = REFRESH_TOC THEN "TOC refreshed successfully" ELSE "TOC toggled successfully"
StatusBusy(action) ==
  IF action = REFRESH_TOC THEN "Refreshing TOC..." ELSE "Toggling TOC visibility..."

\* ------------------------------------------------- popup: startup check
\* the page agent's answer to a ping: { pong: true }
PongResponse == [pong |-> TRUE, allowed |-> "undefined"]

\* response.allowed || false
AllowedOf(response) == response.allowed = "true"

\* chrome.tabs.sendMessage(tabId, { action: 'ping' }) of checkContentScriptAndExecuteAction
SendStartupPing(p, kind) ==
  [p EXCEPT !.startup.pings = @ + 1, !.startup.pending = kind]

\* the DOMContentLoaded listener of popup.js up to its first asynchronous call
PopupDOMContentLoaded(p, t) ==
  SendStartupPing([p EXCEPT !.startup.tab = t,
                            !.startup.outcome = "pending",
                            !.startup.status = "Checking content script status...",
                            !.startup.isError = FALSE],
                  "ping")

\* the .then of the startup check in the DOMContentLoaded listener
\* (checkTOCPosition, which follows enableControls, only marks a position button)
StartupResolved(p, response) ==
  IF AllowedOf(response)
  THEN [p EXCEPT !.startup.pending = "none", !.startup.outcome = "resolved",
                 !.startup.status = "Content script is active", !.startup.isError = FALSE,
                 !.startup.controls = "enabled",
                 !.startup.pageStatus = "TOC is enabled on this page"]
  ELSE [p EXCEPT !.startup.pending = "none", !.startup.outcome = "resolved",
                 !.startup.status = "Content script is active", !.startup.isError = FALSE,
                 !.startup.controls = "disabled",
                 !.startup.pageStatus = "TOC is disabled on this page"]

\* the .catch of the startup check in the DOMContentLoaded listener
StartupRejected(p) ==
  [p EXCEPT !.startup.pending = "none", !.startup.outcome = "rejected",
            !.startup.status = "Content script not active", !.startup.isError = TRUE,
            !.startup.controls = "disabled",
            !.startup.pageStatus = "Content script not active on this page"]

\* the callbacks of the first ping: resolve on a pong, else inject
\* (mutant: a missing agent is pinged again before the injection)
MutPingAgain(p, answered) ==
  IF answered THEN StartupResolved(p, PongResponse)
  ELSE IF p.startup.pings < 3 THEN SendStartupPing(p, "ping")
  ELSE [p EXCEPT !.startup.injections = @ + 1, !.startup.pending = "inject"]
FirstPingCallback(p, answered) ==
  IF answered THEN StartupResolved(p, PongResponse)
  ELSE [p EXCEPT !.startup.injections = @ + 1, !.startup.pending = "inject"]

\* the callbacks of injectContentScript: wait 500 ms, or reject
StartupInjectCallback(p, ok) ==
  IF ok THEN [p EXCEPT !.startup.pending = "settle"] ELSE StartupRejected(p)

\* setTimeout(..., 500) fires: the second ping is sent
StartupSettleCallback(p) == SendStartupPing(p, "ping2")

\* the callbacks of the second ping: resolve on a pong, else reject
SecondPingCallback(p, answered) ==
  IF answered THEN StartupResolved(p, PongResponse) ELSE StartupRejected(p)

\* the page agent before the content script has run
AgentIdle(readyState, budget) ==
  /\ win = InitWin(readyState)
  /\ store = InitStore
  /\ timers = <<>>
  /\ list = <<>>
  /\ obs = ZeroObs("none")
  /\ ghost = [NoGhost EXCEPT !.budget = budget]
  /\ host = HostIdle
  /\ popup = PopupIdle

ExtractInit ==
  /\ variant \in Variants
  /\ doc = <<>>
  /\ result = NoResult
  /\ AgentIdle("complete", 0)

ExtractNext ==
  \/ \E p \in 1..(MaxElems + 1), e \in PageLeaves \cup PageContainers : PageInsertTop(p, e)
  \/ \E p \in 1..(MaxElems + 1), e \in PageLeaves : PageInsertChild(p, e)
  \/ \E p \in 1..MaxElems : PageRemove(p)
  \/ GetHeadings

SpecExtract == ExtractInit /\ [][ExtractNext]_vars

\* ------------------------------------------------- page input: containers
\* pages built from every kind of content container extractHeadings looks for
ContainerKinds ==
  { Elem(TagDIV, "main", {}, <<>>, 0),
    Elem(TagDIV, "content", {}, <<>>, 0),
    Elem(TagDIV, "article", {}, <<>>, 0),
    Elem(TagARTICLE, "", {}, <<>>, 0),
    Elem(TagMAIN, "", {}, <<>>, 0),
    Elem(TagDIV, "", {"content"}, <<>>, 0),
    Elem(TagDIV, "", {"article"}, <<>>, 0) }

ContainerLeaves == { Elem(TagH(1), "", {}, <<"a">>, 0), Elem(TagH(4), "", {}, <<"a">>, 0) }

ContainersNext ==
  \/ \E p \in 1..(MaxElems + 1), e \in ContainerLeaves \cup ContainerKinds : PageInsertTop(p, e)
  \/ \E p \in 1..(MaxElems + 1), e \in ContainerLeaves : PageInsertChild(p, e)
  \/ \E p \in 1..MaxElems : PageRemove(p)
  \/ GetHeadings

SpecContainers == ExtractInit /\ [][ContainersNext]_vars

\* ------------------------------------------------------ page agent: steps
\* what the page inserts in a document the agent runs in
AgentLeaves ==
  { Elem(TagH(1), "", {}, <<"a">>, 0),
    Elem(TagH(3), "", {}, <<" ", " ">>, 0),
    Elem(TagP, "", {}, <<"a">>, 0) }

AgentContainers == { Elem(TagDIV, "main", {}, <<>>, 0) }

\* the elements of the page itself come before the sidebar in <body>
PageLen(d) == Cardinality({i \in 1..Len(d) : ~d[i].ext})

\* the current state, for a handler to work on
Cur == Machine(variant, doc, win, store, timers, list, ZeroObs("none"))

\* the state a handler leaves behind
Step(s, op, g) ==
  /\ doc' = RememberFirstIds(s.doc)
  /\ win' = s.win
  /\ store' = s.store
  /\ timers' = s.timers
  /\ list' = s.list
  /\ obs' = [s.obs EXCEPT !.op = op]
  /\ ghost' = [g EXCEPT !.sinceExtract = IF s.obs.extracted > 0 THEN 0 ELSE @]
  /\ UNCHANGED <<variant, result, host, popup>>

CanEvent == ghost.events < ghost.budget
Event == [ghost EXCEPT !.events = @ + 1]

\* the position and visibility the sidebar shows
Displayed(d) ==
  LET tocSidebar == getElementById(d, "any-toc-sidebar")
  IN [position |-> IF "left" \in d[tocSidebar].cls THEN "left" ELSE "right",
      visibility |-> IF "hidden" \in d[tocSidebar].cls THEN "hidden" ELSE "visible"]

\* an added or removed node is, or contains, a heading of level 1 to 4
TouchesHeading(sub) ==
  \E j \in 1..Len(sub) : sub[j].tagName \in {TagH(1), TagH(2), TagH(3), TagH(4)}

Mutated(g, sub) ==
  IF win.observer /\ TouchesHeading(sub)
  THEN [g EXCEPT !.pending = TRUE, !.sinceMutation = 0]
  ELSE g

\* the browser runs the content script in the document
LoadScript ==
  /\ ~win.script
  /\ Step(ContentScript(Cur), "script", ghost)

\* the document finishes parsing: DOMContentLoaded
DOMContentLoaded ==
  /\ win.readyState = "loading"
  /\ LET s == [Cur EXCEPT !.win.readyState = "complete"]
     IN Step(IF win.domListener THEN initOnDOMContentLoaded(s) ELSE s, "DOMContentLoaded", ghost)

RemoveAt(seq, i) == SubSeq(seq, 1, i - 1) \o SubSeq(seq, i + 1, Len(seq))

\* a timer that is due fires: a timeout is gone, the interval is armed again
TimerFire(i) ==
  /\ i \in 1..Len(timers)
  /\ timers[i].left = 0
  /\ LET t == timers[i]
         s == [Cur EXCEPT !.timers = IF t.kind = "sweep"
                                      THEN [timers EXCEPT ![i].left = SWEEP_MS]
                                      ELSE RemoveAt(timers, i)]
     IN CASE t.kind = "retry" -> Step(RetryCallback(s), "retry", ghost)
          [] t.kind = "debounce" ->
               Step(refreshTOC(s, FALSE), "debounce", [ghost EXCEPT !.pending = FALSE])
          [] t.kind = "sweep" -> Step(SweepCallback(s), "sweep", ghost)
          [] t.kind = "finalRefresh" -> Step(refreshTOC(s, FALSE), "finalRefresh", ghost)
          [] t.kind = "initToc" -> Step(InitTimeoutCallback(s), "initToc", ghost)
          [] t.kind = "auto" -> Step(performRefresh(s, t.n), "auto", ghost)
          [] t.kind \in {"pressReset", "releaseReset"} ->
               Step(ResetInteracting(s), t.kind, ghost)

\* time passes, once every timer that is due has fired
Tick ==
  /\ \A i \in 1..Len(timers) : timers[i].left > 0
  /\ timers' = [i \in 1..Len(timers) |-> [timers[i] EXCEPT !.left = @ - TimeUnit]]
  /\ win' = [win EXCEPT !.sinceRefresh = Elapse(@, THROTTLE_MS)]
  /\ ghost' = [ghost EXCEPT !.sinceMutation = Elapse(@, DEBOUNCE_MS),
                            !.sinceExtract = Elapse(@, THROTTLE_MS)]
  /\ obs' = ZeroObs("tick")
  /\ UNCHANGED <<variant, doc, result, store, list, host, popup>>

\* the 'refresh' message, or a click on the refresh button
Refresh ==
  /\ win.script /\ CanEvent
  /\ Step(UserRefresh(Cur), "refresh", Event)

\* the 'toggle' message, or a click on the close button or the collapsed button
Toggle ==
  /\ win.script /\ CanEvent
  /\ Step(toggleTOCSidebar(Cur), "toggle", Event)

\* a click on the position button
TogglePosition ==
  /\ win.script /\ CanEvent
  /\ Step(togglePosition(Cur), "togglePosition", Event)

\* the 'setPosition' message
SetPosition(position) ==
  /\ win.script /\ CanEvent
  /\ Step(setPosition(Cur, position), "setPosition", Event)

\* the mouse enters or leaves the sidebar
MouseEnter ==
  /\ win.listeners /\ CanEvent
  /\ ~ghost.inside
  /\ Step([Cur EXCEPT !.win.isUserInteractingWithTOC = TRUE], "mouseenter",
          [Event EXCEPT !.inside = TRUE])

MouseLeave ==
  /\ win.listeners /\ CanEvent
  /\ ghost.inside
  /\ Step([Cur EXCEPT !.win.isUserInteractingWithTOC = FALSE], "mouseleave",
          [Event EXCEPT !.inside = FALSE])

\* a mouse button is pressed, and released, with the pointer in the sidebar
MouseDown ==
  /\ win.listeners /\ CanEvent
  /\ ghost.inside /\ ~ghost.pressed
  /\ Step(OnMouseDown(Cur), "mousedown", [Event EXCEPT !.pressed = TRUE])

MouseUp ==
  /\ win.listeners /\ CanEvent
  /\ ghost.inside /\ ghost.pressed
  /\ Step(OnMouseUp(Cur), "mouseup", [Event EXCEPT !.pressed = FALSE])

\* the tab is hidden or shown again
VisibilityChange ==
  /\ win.script /\ CanEvent
  /\ LET s == [Cur EXCEPT !.win.hidden = ~win.hidden]
     IN Step(IF win.listeners THEN OnVisibilityChange(s) ELSE s, "visibilitychange", Event)

\* the page inserts an element as a child of <body>, before element p, and the
\* mutation observer is called
AgentInsertTop(p, e) ==
  /\ CanEvent
  /\ PageLen(doc) < MaxAgentElems
  /\ p \in 1..(PageLen(doc) + 1)
  /\ p <= Len(doc) => doc[p].depth = 0
  /\ PageIdFree(doc, e)
  /\ Step(ObserverCallback([Cur EXCEPT !.doc = InsertAt(doc, p, e)], <<e>>),
          "insert", Mutated(Event, <<e>>))

\* the page inserts a leaf into a container of the page
AgentInsertChild(p, e) ==
  /\ CanEvent
  /\ PageLen(doc) < MaxAgentElems
  /\ p \in 2..(PageLen(doc) + 1)
  /\ \/ doc[p - 1].depth = 0 /\ IsContainer(doc[p - 1])
     \/ doc[p - 1].depth = 1
  /\ PageIdFree(doc, e)
  /\ Step(ObserverCallback([Cur EXCEPT !.doc = InsertAt(doc, p, [e EXCEPT !.depth = 1])], <<e>>),
          "insert", Mutated(Event, <<e>>))

\* the page removes one of its elements with its subtree
AgentRemove(p) ==
  /\ CanEvent
  /\ p \in 1..PageLen(doc)
  /\ LET sub == SubSeq(doc, p, SubtreeEnd(doc, p))
     IN Step(ObserverCallback([Cur EXCEPT !.doc = RemoveSubtree(doc, p)], sub),
             "remove", Mutated(Event, sub))

\* the user reloads the tab: a new document and a new window, the same localStorage
Reload ==
  /\ win.script /\ CanEvent
  /\ \E readyState \in {"loading", "complete"} : win' = InitWin(readyState)
  /\ doc' = <<>>
  /\ timers' = <<>>
  /\ list' = <<>>
  /\ obs' = ZeroObs("reload")
  /\ ghost' = [NoGhost EXCEPT !.events = ghost.events + 1,
                              !.budget = ghost.budget,
                              !.shown = [known |-> TRUE] @@ Displayed(doc)]
  /\ UNCHANGED <<variant, result, store, host, popup>>

Init ==
  /\ variant \in Variants
  /\ doc = <<>>
  /\ result = NoResult
  /\ \E readyState \in {"loading", "complete"} : AgentIdle(readyState, MaxEvents)

Next ==
  \/ LoadScript
  \/ DOMContentLoaded
  \/ \E i \in 1..Len(timers) : TimerFire(i)
  \/ Tick
  \/ Refresh
  \/ Toggle
  \/ TogglePosition
  \/ \E position \in {"left", "right"} : SetPosition(position)
  \/ MouseEnter
  \/ MouseLeave
  \/ VisibilityChange
  \/ \E p \in 1..(MaxAgentElems + 1), e \in AgentLeaves \cup AgentContainers : AgentInsertTop(p, e)
  \/ \E p \in 1..(MaxAgentElems + 1), e \in AgentLeaves : AgentInsertChild(p, e)
  \/ \E p \in 1..MaxAgentElems : AgentRemove(p)
  \/ Reload

Spec == Init /\ [][Next]_vars

\* the preferences alone: the page stays as it is and nobody asks for a refresh
PrefInit ==
  /\ variant \in Variants
  /\ doc = <<>>
  /\ result = NoResult
  /\ \E readyState \in {"loading", "complete"} : AgentIdle(readyState, MaxPrefEvents)

PrefNext ==
  \/ LoadScript
  \/ DOMContentLoaded
  \/ \E i \in 1..Len(timers) : TimerFire(i)
  \/ Tick
  \/ Toggle
  \/ TogglePosition
  \/ \E position \in {"left", "right"} : SetPosition(position)
  \/ Reload

SpecPrefs == PrefInit /\ [][PrefNext]_vars

\* --------------------------------------------------- scrolling to a heading
\* the 'scrollToHeading' message, or a click on a link of the list
ScrollToHeading(id, position) ==
  /\ \A i \in 1..Len(doc) : doc[i].id = id => Len(doc[i].restore) < MaxPending
  /\ LET s == scrollToHeading(Cur, id, position)
     IN /\ doc' = s.doc
        /\ win' = s.win
        /\ obs' = [ZeroObs("scrollToHeading") EXCEPT !.id = id, !.position = position]
  /\ UNCHANGED <<variant, result, store, timers, list, ghost, host, popup>>

\* a highlight timer of the element at i fires
HighlightFire(i) ==
  /\ i \in 1..Len(doc)
  /\ doc[i].restore # <<>>
  /\ doc' = HighlightCallback(Cur, i).doc
  /\ obs' = ZeroObs("highlight")
  /\ UNCHANGED <<variant, result, win, store, timers, list, ghost, host, popup>>

\* the ids a caller may pass besides those of the last list of headings
ScrollIds == {"toc-heading-0", "toc-heading-1", "gone"}

ScrollInit ==
  /\ variant \in Variants
  /\ doc = <<>>
  /\ result = NoResult
  /\ AgentIdle("complete", MaxPageEvents)

ScrollNext ==
  \/ \E p \in 1..(MaxAgentElems + 1), e \in AgentLeaves \cup AgentContainers : AgentInsertTop(p, e)
  \/ \E p \in 1..(MaxAgentElems + 1), e \in AgentLeaves : AgentInsertChild(p, e)
  \/ \E p \in 1..MaxAgentElems : AgentRemove(p)
  \/ GetHeadings
  \/ \E i \in 1..Len(result.headings) :
       ScrollToHeading(result.headings[i].id, result.headings[i].position)
  \/ \E id \in ScrollIds, position \in 0..MaxAgentElems : ScrollToHeading(id, position)
  \/ \E i \in 1..MaxAgentElems : HighlightFire(i)

SpecScroll == ScrollInit /\ [][ScrollNext]_vars

\* ------------------------------------------- page agent: initialization
\* The content script starts in a document that may already hold the sidebar
\* of an earlier instance of the script (the extension was reloaded or updated
\* while the page stayed open): window.isInitialized is false in the new
\* instance although the sidebar is in the document.  The timers of the
\* earlier instance are not followed.
MaxInitEvents == 2   \* user actions during initialization

LeftoverSidebar == SidebarElements \o <<CollapsedButton>>

InitRaceInit ==
  /\ variant \in Variants
  /\ doc \in {<<>>, LeftoverSidebar}
  /\ result = NoResult
  /\ \E readyState \in {"loading", "complete"} : AgentIdle(readyState, MaxInitEvents)

InitRaceNext ==
  \/ LoadScript
  \/ DOMContentLoaded
  \/ \E i \in 1..Len(timers) : TimerFire(i)
  \/ Tick
  \/ Refresh
  \/ Toggle

SpecInitRace == InitRaceInit /\ [][InitRaceNext]_vars

\* ---------------------------------------------------- page agent: rendering
\* The content script runs in a page that is empty or holds a content
\* container whose only heading is blank (no heading to list); the page then
\* changes while refreshes and their delayed retries are under way.
MaxRenderEvents == 2   \* page changes and refresh commands in one run

BlankPage ==
  << Elem(TagDIV, "main", {}, <<>>, 0), Elem(TagH(3), "", {}, <<" ", " ">>, 1) >>

RenderInit ==
  /\ variant \in Variants
  /\ doc \in {<<>>, BlankPage}
  /\ result = NoResult
  /\ AgentIdle("complete", MaxRenderEvents)

RenderNext ==
  \/ LoadScript
  \/ \E i \in 1..Len(timers) : TimerFire(i)
  \/ Tick
  \/ Refresh
  \/ \E p \in 1..(MaxAgentElems + 1), e \in AgentLeaves : AgentInsertChild(p, e)
  \/ \E p \in 1..MaxAgentElems : AgentRemove(p)

SpecRender == RenderInit /\ [][RenderNext]_vars

\* ------------------------------------------- page agent: message listener
\* chrome.runtime.onMessage listener of the page agent (src/content.js:136-200,
\* src/background.js:416-486).  A handler throws when localStorage refuses
\* access (SecurityError, QuotaExceededError); refreshTOC catches its own
\* exceptions.
MaxMessages == 2   \* messages delivered to the listener in one run

Msg(action, id, top, position) ==
  [action |-> action, id |-> id, top |-> top, position |-> position]

KnownActions ==
  {"getHeadings", "scrollToHeading", "toggle", "refresh", "setPosition", "getPosition"}

ListenerMessages ==
  {Msg(a, "", 0, "") : a \in {"ping", "getHeadings", "toggle", "refresh", "getPosition", "selectTheme"}}
    \cup {Msg("scrollToHeading", id, 1, "") : id \in {"any-toc-list", "gone"}}
    \cup {Msg("setPosition", "", 0, position) : position \in {"left", "right"}}

Response(shape, error) == [shape |-> shape, error |-> error]

\* the outcome of running a handler: the state it leaves and whether it threw
Returned(s) == [state |-> s, thrown |-> FALSE]
Thrown(s) == [state |-> s, thrown |-> TRUE]

SidebarParts(s) ==
  /\ getElementById(s.doc, "any-toc-sidebar") # NULL
  /\ getElementById(s.doc, "any-toc-collapsed") # NULL

\* toggleTOCSidebar up to its localStorage.setItem, which throws
ToggleUntilSetItem(s) ==
  LET tocSidebar == getElementById(s.doc, "any-toc-sidebar")
      collapsedButton == getElementById(s.doc, "any-toc-collapsed")
  IN IF "hidden" \in s.doc[tocSidebar].cls
     THEN [s EXCEPT !.doc[tocSidebar].cls = @ \ {"hidden"},
                    !.doc[collapsedButton].cls = @ \ {"visible"}]
     ELSE [s EXCEPT !.doc[tocSidebar].cls = @ \cup {"hidden"},
                    !.doc[collapsedButton].cls = @ \cup {"visible"}]

\* setPosition up to its localStorage.setItem, which throws
SetPositionUntilSetItem(s, position) ==
  LET tocSidebar == getElementById(s.doc, "any-toc-sidebar")
      collapsedButton == getElementById(s.doc, "any-toc-collapsed")
  IN IF position = "left"
     THEN [s EXCEPT !.doc[tocSidebar].cls = @ \cup {"left"},
                    !.doc[collapsedButton].cls = @ \cup {"left"}]
     ELSE [s EXCEPT !.doc[tocSidebar].cls = @ \ {"left"},
                    !.doc[collapsedButton].cls = @ \ {"left"}]

\* getCurrentPosition reads localStorage unless the sidebar is there and shown
\* (the stylesheet is not part of src/: a sidebar of class hidden is taken to
\* have computed display none)
getCurrentPositionReadsStorage(s) ==
  LET sidebar == getElementById(s.doc, "any-toc-sidebar")
  IN sidebar = NULL \/ "hidden" \in s.doc[sidebar].cls

\* the handler a case of the switch calls
RunHandler(s, message, storageThrows) ==
  CASE message.action = "getHeadings" ->
         Returned([s EXCEPT !.doc = extractHeadings(s.doc, s.variant).doc])
    [] message.action = "scrollToHeading" ->
         Returned(scrollToHeading(s, message.id, message.top))
    [] message.action = "toggle" ->
         IF storageThrows /\ SidebarParts(s) THEN Thrown(ToggleUntilSetItem(s))
         ELSE Returned(toggleTOCSidebar(s))
    [] message.action = "refresh" -> Returned(UserRefresh(s))
    [] message.action = "setPosition" ->
         IF storageThrows /\ SidebarParts(s)
         THEN Thrown(SetPositionUntilSetItem(s, message.position))
         ELSE Returned(setPosition(s, message.position))
    [] message.action = "getPosition" ->
         IF storageThrows /\ getCurrentPositionReadsStorage(s) THEN Thrown(s)
         ELSE Returned(s)

\* what the case passes to sendResponse after its handler returned
CaseResponse(message) ==
  CASE message.action = "getHeadings" -> Response("headings", "")
    [] message.action = "getPosition" -> Response("position", "")
    [] OTHER -> Response("success", "")

\* sendResponse of the listener
Respond(s, response) == [s EXCEPT !.obs.responses = Append(@, response)]

\* the default case of the switch
\* (mutant: an unknown action is left unanswered)
MutSilentDefault(s) == s
DefaultCase(s) == Respond(s, Response("error", "Unknown action"))

\* the listener: the try block, then the catch
onMessage(s, message, storageThrows) ==
  IF message.action = PING THEN Respond(s, Response("pong", ""))
  ELSE IF message.action \notin KnownActions THEN DefaultCase(s)
  ELSE LET h == RunHandler(s, message, storageThrows)
       IN IF h.thrown THEN Respond(h.state, Response("error", "e.message"))
          ELSE Respond(h.state, CaseResponse(message))

\* a message is delivered to the listener
Message(message, storageThrows) ==
  /\ win.script /\ CanEvent
  /\ Step(onMessage([Cur EXCEPT !.obs.action = message.action,
                               !.obs.thrown = storageThrows],
                    message, storageThrows),
          "message", Event)

ListenerInit ==
  /\ variant \in Variants
  /\ doc = <<>>
  /\ result = NoResult
  /\ \E readyState \in {"loading", "complete"} : AgentIdle(readyState, MaxMessages)

ListenerNext ==
  \/ LoadScript
  \/ DOMContentLoaded
  \/ \E i \in 1..Len(timers) : TimerFire(i)
  \/ Tick
  \/ \E message \in ListenerMessages, storageThrows \in BOOLEAN : Message(message, storageThrows)

SpecListener == ListenerInit /\ [][ListenerNext]_vars

\* --------------------------------- page agent: the sidebar is taken away
\* The document is shared with the page: its scripts can remove what initTOC
\* appended to <body> (a page that re-renders its body does).  The mutation
\* observer sees the removal like any other.
MaxMissingEvents == 3   \* removals and commands in one run

OwnIds == {"any-toc-sidebar", "any-toc-collapsed", "any-toc-list"}

MissingCommands ==
  {Msg(a, "", 0, "") : a \in {"toggle", "refresh"}}
    \cup {Msg("setPosition", "", 0, position) : position \in {"left", "right"}}

\* the page removes an element of the extension, with its subtree
PageRemovesOwn(id) ==
  /\ win.script /\ CanEvent
  /\ getElementById(doc, id) # NULL
  /\ LET p == getElementById(doc, id)
         sub == SubSeq(doc, p, SubtreeEnd(doc, p))
         gone == [Cur EXCEPT !.doc = RemoveSubtree(doc, p),
                             !.list = IF id = "any-toc-collapsed" THEN @ ELSE <<>>]
     IN Step(ObserverCallback(gone, sub), "removeOwn", Mutated(Event, sub))

MissingInit ==
  /\ variant \in Variants
  /\ doc = <<>>
  /\ result = NoResult
  /\ AgentIdle("complete", MaxMissingEvents)

MissingNext ==
  \/ LoadScript
  \/ \E i \in 1..Len(timers) : TimerFire(i)
  \/ Tick
  \/ \E message \in MissingCommands : Message(message, FALSE)
  \/ TogglePosition
  \/ \E id \in OwnIds : PageRemovesOwn(id)

SpecMissing == MissingInit /\ [][MissingNext]_vars

\* ------------------------------------------ page agent: pointer and sweep
\* The user moves the pointer into and out of the sidebar and clicks in it
\* while the timers of the agent run.
MaxPointerEvents == 4   \* mouse events in one run

PointerInit ==
  /\ variant = "content"
  /\ doc = <<>>
  /\ result = NoResult
  /\ AgentIdle("complete", MaxPointerEvents)

PointerNext ==
  \/ LoadScript
  \/ \E i \in 1..Len(timers) : TimerFire(i)
  \/ Tick
  \/ MouseEnter
  \/ MouseLeave
  \/ MouseDown
  \/ MouseUp

SpecPointer == PointerInit /\ [][PointerNext]_vars

\* ------------------------------------------------- host coordinator: steps
HostStep(h, p) ==
  /\ host' = h
  /\ popup' = p
  /\ UNCHANGED <<variant, doc, result, agentVars>>

TasksOf(kind) == {task \in host.tasks : task.kind = kind}

CanTabEvent == host.events < MaxTabEvents
TabEvent(h) == [h EXCEPT !.events = @ + 1]

\* popup.js: a click on the refresh / toggle button for the current tab t;
\* the message reaches chrome.runtime.onMessage of the coordinator
PopupClick(action, t) ==
  /\ Len(host.relays) < MaxRelays
  /\ host.tabs[t].open
  /\ HostStep(handleMessage(host, action, t),
              [popup EXCEPT !.status = StatusBusy(action), !.isError = FALSE,
                            !.waiting = @ \cup {Len(host.relays) + 1}])

\* popup.js: the promise of chrome.runtime.sendMessage resolves with the response
PopupThen(r) ==
  /\ r \in popup.waiting
  /\ host.relays[r].answers # <<>>
  /\ HostStep(host, [popup EXCEPT !.status = StatusDone(host.relays[r].action),
                                  !.isError = FALSE,
                                  !.waiting = @ \ {r},
                                  !.response = host.relays[r].answers[1]])

PingDone(task) == HostStep(PingCallback(host, task), popup)

InjectDone(task) == HostStep(ExecuteScriptCallback(host, task), popup)

SettleDone(task) == HostStep(SettleCallback(host, task), popup)

ForwardDone(task, response) == HostStep(ForwardCallback(host, task, response), popup)

\* content.js sendPingToBackground: a live page agent pings the coordinator
AgentPing(t) ==
  /\ Listening(host, t)
  /\ CanTabEvent
  /\ HostStep(TabEvent(Pending(host, "agentPing", t, 0)), popup)

AgentPingDone(task) == HostStep(AgentPingReceived(host, task), popup)

\* the user closes the tab: chrome.tabs.onRemoved runs
CloseTab(t) ==
  /\ host.tabs[t].open
  /\ CanTabEvent
  /\ HostStep(Disturb(ForgetTab([TabEvent(host) EXCEPT !.tabs[t].open = FALSE,
                                             !.tabs[t].agent = FALSE,
                                             !.tabs[t].loading = FALSE], t), t, 0),
              popup)

\* the tab navigates to another document: the page agent of the old one is gone
Navigate(t, injectable) ==
  /\ host.tabs[t].open
  /\ CanTabEvent
  /\ HostStep(Disturb([TabEvent(host) EXCEPT !.tabs[t].agent = FALSE,
                                   !.tabs[t].loading = TRUE,
                                   !.tabs[t].injectable = injectable], t, 0),
              popup)

\* chrome.tabs.onUpdated with status 'complete'; only http(s) pages are probed
LoadComplete(t) ==
  /\ host.tabs[t].open
  /\ host.tabs[t].loading
  /\ LET loaded == [host EXCEPT !.tabs[t].loading = FALSE]
     IN HostStep(IF host.tabs[t].injectable THEN checkContentScriptInjection(loaded, t)
                 ELSE loaded,
                 popup)

HostInit ==
  /\ variant = "content"
  /\ doc = <<>>
  /\ result = NoResult
  /\ win = InitWin("complete")
  /\ store = InitStore
  /\ timers = <<>>
  /\ list = <<>>
  /\ obs = ZeroObs("none")
  /\ ghost = NoGhost
  /\ \E injectable \in [Tabs -> BOOLEAN] :
       host = [HostIdle EXCEPT !.tabs = [t \in Tabs |-> Tab(injectable[t])]]
  /\ popup = PopupIdle

HostNext ==
  \/ \E action \in RelayActions, t \in Tabs : PopupClick(action, t)
  \/ \E r \in 1..MaxRelays : PopupThen(r)
  \/ \E task \in TasksOf("ping") : PingDone(task)
  \/ \E task \in TasksOf("inject") : InjectDone(task)
  \/ \E task \in TasksOf("settle") : SettleDone(task)
  \/ \E task \in TasksOf("forward"), response \in AgentResponses : ForwardDone(task, response)
  \/ \E t \in Tabs : AgentPing(t)
  \/ \E task \in TasksOf("agentPing") : AgentPingDone(task)
  \/ \E t \in Tabs : CloseTab(t)
  \/ \E t \in Tabs, injectable \in BOOLEAN : Navigate(t, injectable)
  \/ \E t \in Tabs : LoadComplete(t)

SpecHost == HostInit /\ [][HostNext]_vars

\* --------------------------------------------- host coordinator: messages
\* Any context of the extension may send a message to the coordinator: with
\* one of the actions the coordinator knows or one of the page agent's, from a
\* tab or not, with or without a tabId.
MaxInbox == 2      \* messages the coordinator receives in one run

HostActions == {PING, CHECK_STATUS, TOGGLE_TOC, REFRESH_TOC, "getHeadings"}
HostMessages ==
  {HostMsg(a, sender, 0) : a \in HostActions, sender \in Tabs}
    \cup {HostMsg(a, 0, tabId) : a \in HostActions, tabId \in {0} \cup Tabs}

\* a message arrives at chrome.runtime.onMessage
Deliver(message) ==
  /\ Len(host.inbox) < MaxInbox
  /\ Len(host.relays) < MaxRelays
  /\ HostStep(runtimeOnMessage(host, message), popup)

InboxInit ==
  /\ variant = "content"
  /\ doc = <<>>
  /\ result = NoResult
  /\ win = InitWin("complete")
  /\ store = InitStore
  /\ timers = <<>>
  /\ list = <<>>
  /\ obs = ZeroObs("none")
  /\ ghost = NoGhost
  /\ \E agent \in [Tabs -> BOOLEAN], injectable \in [Tabs -> BOOLEAN] :
       /\ \A t \in Tabs : agent[t] => injectable[t]
       /\ host = [HostIdle EXCEPT !.tabs = [t \in Tabs |->
                    [Tab(injectable[t]) EXCEPT !.agent = agent[t]]]]
  /\ popup = PopupIdle

InboxNext ==
  \/ \E message \in HostMessages : Deliver(message)
  \/ \E task \in TasksOf("ping") : PingDone(task)
  \/ \E task \in TasksOf("inject") : InjectDone(task)
  \/ \E task \in TasksOf("settle") : SettleDone(task)
  \/ \E task \in TasksOf("forward"), response \in AgentResponses : ForwardDone(task, response)
  \/ \E t \in Tabs : CloseTab(t)

SpecInbox == InboxInit /\ [][InboxNext]_vars

\* ------------------------------------------------- popup: startup steps
\* The popup is opened on a tab that may or may not hold a page agent, while
\* the tab navigates or is closed and the coordinator makes its own check of
\* a completed load.
StartupTab == popup.startup.tab

\* the popup is opened on tab t: its DOMContentLoaded listener runs
PopupOpen(t) ==
  /\ popup.startup.outcome = "none"
  /\ host.tabs[t].open
  /\ HostStep(host, PopupDOMContentLoaded(popup, t))

StartupPingDone ==
  /\ popup.startup.pending = "ping"
  /\ HostStep(host, FirstPingCallback(popup, Listening(host, StartupTab)))

\* chrome.scripting.executeScript of the popup settles
StartupInjectDone ==
  /\ popup.startup.pending = "inject"
  /\ LET ok == host.tabs[StartupTab].open /\ host.tabs[StartupTab].injectable
     IN HostStep(IF ok THEN [host EXCEPT !.tabs[StartupTab].agent = TRUE] ELSE host,
                 StartupInjectCallback(popup, ok))

StartupSettleDone ==
  /\ popup.startup.pending = "settle"
  /\ HostStep(host, StartupSettleCallback(popup))

StartupPing2Done ==
  /\ popup.startup.pending = "ping2"
  /\ HostStep(host, SecondPingCallback(popup, Listening(host, StartupTab)))

PopupInit ==
  /\ variant = "content"
  /\ doc = <<>>
  /\ result = NoResult
  /\ win = InitWin("complete")
  /\ store = InitStore
  /\ timers = <<>>
  /\ list = <<>>
  /\ obs = ZeroObs("none")
  /\ ghost = NoGhost
  /\ \E injectable \in [Tabs -> BOOLEAN], agent \in [Tabs -> BOOLEAN] :
       /\ \A t \in Tabs : agent[t] => injectable[t]
       /\ host = [HostIdle EXCEPT !.tabs =
                    [t \in Tabs |-> [Tab(injectable[t]) EXCEPT !.agent = agent[t]]]]
  /\ popup = PopupIdle

PopupNext ==
  \/ \E t \in Tabs : PopupOpen(t)
  \/ StartupPingDone
  \/ StartupInjectDone
  \/ StartupSettleDone
  \/ StartupPing2Done
  \/ \E task \in TasksOf("ping") : PingDone(task)
  \/ \E task \in TasksOf("inject") : InjectDone(task)
  \/ \E task \in TasksOf("settle") : SettleDone(task)
  \/ \E t \in Tabs : CloseTab(t)
  \/ \E t \in Tabs, injectable \in BOOLEAN : Navigate(t, injectable)
  \/ \E t \in Tabs : LoadComplete(t)

SpecPopup == PopupInit /\ [][PopupNext]_vars

\* ======================================================== extractor claims
\* what the claims speak of, stated without the extractor's loop
HasVisibleText(e) == \E k \in 1..Len(e.text) : e.text[k] \notin Whitespace

FirstVisible(t) == CHOOSE k \in 1..Len(t) :
                     t[k] \notin Whitespace /\ \A m \in 1..(k - 1) : t[m] \in Whitespace
LastVisible(t) == CHOOSE k \in 1..Len(t) :
                    t[k] \notin Whitespace /\ \A m \in (k + 1)..Len(t) : t[m] \in Whitespace
TrimmedText(e) == SubSeq(e.text, FirstVisible(e.text), LastVisible(e.text))

LevelOf(e) == CHOOSE n \in 1..6 : e.tagName = TagH(n)
IsHeadingOfLevels(e, levels) == \E n \in levels : e.tagName = TagH(n)

\* the scope the extractor searched: the chosen container when it holds a heading
\* element of the variant's levels, the whole document otherwise
SearchedScope(d, v) ==
  LET inside == {j \in 1..Len(d) : IsDescendant(d, mainContainer(d), j)}
  IN IF \E j \in inside : IsHeadingOfLevels(d[j], SelectorLevels(v))
     THEN inside ELSE 1..Len(d)

\* the non-empty headings of the given levels in the searched scope, in document order
NavigableHeadings(d, v, levels) ==
  SortedSeq({j \in SearchedScope(d, v) :
               IsHeadingOfLevels(d[j], levels) /\ HasVisibleText(d[j])})

\* the element a record was built from: the one laid out at the record's offset
BuiltFrom(rec) == rec.position

\* C1: extractHeadings returns exactly one record per heading element of the
\* variant's levels in the searched scope whose trimmed text is non-empty, in
\* document order, with the level of the tag and the trimmed text; headings of
\* whitespace only give no record and equal texts are all kept.
C1_OneRecordPerHeading ==
  result.fresh =>
    LET H == NavigableHeadings(doc, variant, SelectorLevels(variant))
    IN /\ Len(result.headings) = Len(H)
       /\ \A k \in 1..Len(H) :
            /\ BuiltFrom(result.headings[k]) = H[k]
            /\ result.headings[k].level = LevelOf(doc[H[k]])
            /\ result.headings[k].text = TrimmedText(doc[H[k]])
            /\ result.headings[k].text # <<>>

\* a whitespace-only heading was skipped, and two records carry the same text
C1_Witness ==
  /\ result.fresh
  /\ Len(result.headings) = 2
  /\ result.headings[1].text = result.headings[2].text
  /\ \E j \in SearchedScope(doc, variant) :
       IsHeadingOfLevels(doc[j], SelectorLevels(variant)) /\ ~HasVisibleText(doc[j])

\* C2 (as the README states it): every non-empty heading element of level 1 to 6
\* in the searched scope produces a record of the extraction.
C2_AllSixLevels ==
  result.fresh =>
    LET H == NavigableHeadings(doc, variant, 1..6)
    IN /\ Len(result.headings) = Len(H)
       /\ \A k \in 1..Len(H) : BuiltFrom(result.headings[k]) = H[k]

\* C3: when the chosen container holds no heading element and the document has
\* heading elements outside it, the whole document is searched: every non-empty
\* heading of the document has its record.
C3_FallbackToDocument ==
  LET c == mainContainer(doc)
      levels == SelectorLevels(variant)
      all == {j \in 1..Len(doc) : IsHeadingOfLevels(doc[j], levels)}
  IN (/\ result.fresh
      /\ c # BODY
      /\ all # {}
      /\ \A j \in all : ~IsDescendant(doc, c, j))
     => {BuiltFrom(result.headings[k]) : k \in 1..Len(result.headings)}
          = {j \in all : HasVisibleText(doc[j])}

\* a container without headings was chosen and a heading outside it was returned
C3_Witness ==
  /\ result.fresh
  /\ mainContainer(doc) # BODY
  /\ Len(result.headings) >= 1
  /\ \A k \in 1..Len(result.headings) : ~IsDescendant(doc, mainContainer(doc), BuiltFrom(result.headings[k]))

Ids(recs) == [k \in 1..Len(recs) |-> recs[k].id]

\* C4: ids are assigned once: an element that carries an id keeps it through every
\* later extraction (also across insertions and removals), and a second
\* extraction of an unchanged document returns the same ids and changes nothing.
C4_IdsKept ==
  /\ [](\A i \in 1..Len(doc) : doc[i].firstId # "" => doc[i].id = doc[i].firstId)
  /\ [][(result.fresh /\ result'.fresh) =>
          (Ids(result'.headings) = Ids(result.headings) /\ doc' = doc)]_vars

\* a generated id that no longer equals the heading's ordinal survived a later
\* extraction, next to a heading with an id of the page's own
C4_Witness ==
  /\ result.fresh
  /\ \E k \in 1..Len(result.headings) : \E n \in 0..MaxElems :
       result.headings[k].id = GeneratedId(n) /\ n # k - 1
  /\ \E k \in 1..Len(result.headings) : result.headings[k].id = "x"

\* C5 (as claimed): looking up a record's id in the document at return time yields
\* the heading element the record was built from.
C5_IdResolvesToItsHeading ==
  result.fresh =>
    \A k \in 1..Len(result.headings) : getElementById(doc, result.headings[k].id) = BuiltFrom(result.headings[k])

\* ======================================================= page agent claims
\* C6: when the content script runs again after a reload, with localStorage
\* kept, the sidebar shows the position and the visibility it showed before
\* the reload, whatever toggleTOCSidebar, togglePosition and setPosition calls
\* came before
C6_PreferencesRestored ==
  [][ (ghost.shown.known /\ ~win.script /\ win'.script)
        => Displayed(doc') = [position |-> ghost.shown.position,
                              visibility |-> ghost.shown.visibility] ]_vars

C6_Witness ==
  /\ win.script
  /\ ghost.shown.known
  /\ ghost.shown.position = "left"
  /\ ghost.shown.visibility = "hidden"
  /\ Displayed(doc) = [position |-> "left", visibility |-> "hidden"]

\* C7: a handler whose refreshTOC calls are all forced extracts once per call,
\* however recent the last extraction; a refreshTOC call that is not forced and
\* comes less than 500 ms after the last extraction of refreshTOC extracts nothing
C7_Throttle ==
  [][ /\ obs'.unforced = 0 => obs'.extracted = obs'.forced
      /\ (/\ obs'.unforced > 0
          /\ ghost.sinceExtract # UNDEFINED
          /\ ghost.sinceExtract < THROTTLE_MS) => obs'.extracted = 0 ]_vars

C7_Witness ==
  /\ obs.op = "refresh"
  /\ obs.unforced = 1
  /\ obs.extracted = 0

\* C8: while a relevant mutation seen by the observer awaits its refresh, exactly
\* one debounce timer is pending, due 2 s after the last relevant mutation; at
\* no time is more than one debounce timer pending
DebounceTimers == {i \in 1..Len(timers) : timers[i].kind = "debounce"}

C8_TrailingEdgeDebounce ==
  /\ Cardinality(DebounceTimers) <= 1
  /\ ghost.pending =>
       \E i \in DebounceTimers : timers[i].left = DEBOUNCE_MS - ghost.sinceMutation

\* C9: on an initialized page that has finished loading, a list that does not
\* show the headings of the document is replaced by one that does without any
\* user action: some timer of the agent is pending, for nothing else can bring
\* the refresh about
Rendered(hs) == [i \in 1..Len(hs) |-> [text |-> hs[i].text, level |-> hs[i].level]]

InSync == Rendered(list) = Rendered(extractHeadings(doc, variant).headings)

C9_AutomaticUpdates ==
  (win.isInitialized /\ win.readyState = "complete" /\ ~InSync) => timers # <<>>

\* C10: scrollToHeading(id, position) scrolls to an element whose id is id and
\* highlights it and nothing else, when there is such an element; otherwise it
\* scrolls to position and highlights nothing
C10_ScrollToHeading ==
  [][ obs'.op = "scrollToHeading" =>
        LET present == {i \in 1..Len(doc) : doc[i].id = obs'.id}
        IN IF present # {}
           THEN /\ Len(doc') = Len(doc)
                /\ \E k \in present :
                     /\ win'.scrollY = OffsetTop(doc, k)
                     /\ doc'[k].backgroundColor = HIGHLIGHT
                     /\ \A j \in 1..Len(doc) \ {k} : doc'[j] = doc[j]
           ELSE /\ win'.scrollY = obs'.position
                /\ doc' = doc ]_vars

C10_Witness ==
  /\ obs.op = "scrollToHeading"
  /\ \E k \in 1..Len(doc) :
       /\ doc[k].id = obs.id
       /\ doc[k].backgroundColor = HIGHLIGHT
       /\ win.scrollY = OffsetTop(doc, k)
       /\ obs.position # OffsetTop(doc, k)

\* ================================================= host coordinator claims
Relays == 1..Len(host.relays)
Answered(r) == host.relays[r].answers # <<>>

\* C11: a relay that reported back, and whose tab neither navigated nor
\* closed while it ran, made exactly one injection attempt (and at most one
\* forward) when the page had no agent at the time of the request, and no
\* injection attempt when the page had one.
C11_InjectOnceOrNever ==
  \A r \in Relays :
    (Answered(r) /\ ~host.relays[r].disturbed) =>
      /\ Len(host.relays[r].forwards) <= 1
      /\ host.relays[r].injections = (IF host.relays[r].agentAtStart THEN 0 ELSE 1)

TasksFor(r) == {task \in host.tasks : task.relay = r}
ForwardedAs(action) == IF action = "toggleTOC" THEN "toggle" ELSE "refresh"

\* C12: every toggleTOC / refreshTOC request carrying a tab id is forwarded
\* only to that tab and only under the agent's name of the action, and is
\* answered exactly once: never twice, once when nothing of the relay is in
\* flight any more; the answer is the agent's response to the forward, or
\* the failure {success: false, error}.
C12_RelayAnsweredOnce ==
  \A r \in Relays :
    LET q == host.relays[r]
    IN /\ Len(q.answers) <= 1
       /\ \A i \in 1..Len(q.forwards) :
             q.forwards[i] = [tab |-> q.tab, action |-> ForwardedAs(q.action)]
       /\ TasksFor(r) = {} => Len(q.answers) = 1
       /\ Answered(r) =>
             \/ q.answers[1] \in AgentResponses /\ Len(q.forwards) = 1
             \/ q.answers[1].success = "false" /\ q.answers[1].error # "undefined"

C12_Witness ==
  \E r1, r2 \in Relays :
    /\ host.relays[r1].answers = <<Success>>
    /\ host.relays[r1].forwards = <<[tab |-> host.relays[r1].tab, action |-> "toggle"]>>
    /\ host.relays[r1].action = "toggleTOC"
    /\ host.relays[r2].answers = <<Failure(NOT_READY)>>
    /\ host.relays[r2].forwards = <<>>

\* C14: injectedTabs holds no entry for a tab that has been closed, at the
\* removal and at every later time, whatever callbacks for that tab are
\* still in flight.
C14_ClosedTabForgotten ==
  \A t \in Tabs : ~host.tabs[t].open => t \notin host.injectedTabs

\* C18: the popup shows a success status only when the command it sent
\* succeeded; a {success: false, error} answer of the coordinator shows as a
\* failure status.
C18_FailureSurfaced ==
  /\ popup.status \in {"TOC refreshed successfully", "TOC toggled successfully"}
        => popup.response.success = "true"
  /\ (popup.status \notin {"Ready", "Refreshing TOC...", "Toggling TOC visibility..."}
        /\ popup.response.success = "false") => popup.isError

\* ================================================ message listener claims
\* C13: for every message delivered to the page agent's listener, sendResponse
\* is called exactly once; the response is {error: ...} when the action is
\* unknown and when the handler threw, and is not error-shaped otherwise.
C13_OneResponse ==
  [][ obs'.op = "message" =>
        /\ Len(obs'.responses) = 1
        /\ obs'.responses[1].shape = "error"
             <=> \/ obs'.action \notin KnownActions \cup {PING}
                 \/ /\ obs'.thrown
                    /\ \/ obs'.action \in {"toggle", "setPosition"} /\ SidebarParts(Cur)
                       \/ obs'.action = "getPosition" /\ getCurrentPositionReadsStorage(Cur) ]_vars

C13_Witness ==
  /\ obs.op = "message"
  /\ obs.action = "toggle"
  /\ obs.thrown
  /\ obs.responses = <<Response("error", "e.message")>>

\* =================================================== initialization claims
SidebarRoots(d) == {i \in 1..Len(d) : d[i].id = "any-toc-sidebar"}

\* C15: the document never holds more than one sidebar root, whatever the
\* order of the three initialization triggers and also when the script is
\* loaded afresh into a document that already holds a sidebar; and once a
\* sidebar is in the document an initialization attempt constructs nothing:
\* it leaves the document, the list and the stored preferences as they are
\* and sets no timer.
C15_InitializationIdempotent ==
  /\ Cardinality(SidebarRoots(doc)) <= 1
  /\ SidebarRoots(doc) # {} =>
       LET after == initTOC(Cur)
       IN /\ after.doc = doc
          /\ after.list = list
          /\ after.store = store
          /\ Len(after.timers) <= Len(timers)
          /\ after.win.isInitialized

C15_Witness ==
  /\ win.script
  /\ win.isInitialized
  /\ ~win.observer
  /\ Cardinality(SidebarRoots(doc)) = 1
  /\ obs.op = "initToc"

\* ======================================================== rendering claims
Shown(id) == getElementById(doc, id) # NULL /\ doc[getElementById(doc, id)].display # "none"
ViewStates ==
  {v \in {"scanning", "none found", "list"} :
     \/ v = "scanning" /\ Shown("any-toc-loading")
     \/ v = "none found" /\ Shown("any-toc-no-headings")
     \/ v = "list" /\ list # <<>>}

\* C16: once the sidebar is initialized, every state between two handlers
\* shows exactly one of the scanning placeholder, the 'No headings found'
\* placeholder and a non-empty list.
C16_OneViewState ==
  (win.isInitialized /\ SidebarRoots(doc) # {}) => Cardinality(ViewStates) = 1

\* C17: a render replaces the whole list: in the state a handler that rendered
\* leaves behind (obs tells what the last handler did),
\* the delayed retry included, the list holds one entry per heading of the
\* extraction the render was given, in the same order, and nothing else.
C17_RenderReplaces ==
  obs.builds > 0 => InSync

\* ======================================================== container claims
\* the k-th candidate, as the claim lists them
IsCandidate(e, k) ==
  CASE k = 1 -> e.id = "main"
    [] k = 2 -> e.id = "content"
    [] k = 3 -> e.id = "article"
    [] k = 4 -> e.tagName = <<"A", "R", "T", "I", "C", "L", "E">>
    [] k = 5 -> e.tagName = <<"M", "A", "I", "N">>
    [] k = 6 -> "content" \in e.cls
    [] k = 7 -> "article" \in e.cls

CandidatesPresent(d) == {k \in 1..7 : \E i \in 1..Len(d) : IsCandidate(d[i], k)}

FirstCandidate(d) ==
  IF CandidatesPresent(d) = {} THEN BODY
  ELSE LET k == CHOOSE x \in CandidatesPresent(d) : \A y \in CandidatesPresent(d) : x <= y
           is == {i \in 1..Len(d) : IsCandidate(d[i], k)}
       IN CHOOSE i \in is : \A j \in is : i <= j

C20_ManualRefreshForced ==
  [][ (obs'.op = "refresh" /\ win.sinceRefresh # UNDEFINED /\ win.sinceRefresh < THROTTLE_MS)
        => (obs'.forced >= 1 /\ obs'.extracted >= 1) ]_vars

\* ==================================================== sidebar state claims
\* C21: a toggle that shows the hidden sidebar makes a forced refresh, which
\* extracts whatever the throttle says, and leaves 'visible' persisted; a
\* toggle that hides the sidebar extracts nothing and leaves 'hidden'
\* persisted.
C21_ToggleRefreshesAndPersists ==
  [][ (obs'.op = "toggle" /\ SidebarParts(Cur)) =>
        IF Displayed(doc).visibility = "hidden"
        THEN /\ obs'.forced >= 1
             /\ obs'.extracted >= 1
             /\ store'.visibility = "visible"
             /\ Displayed(doc').visibility = "visible"
        ELSE /\ obs'.extracted = 0
             /\ store'.visibility = "hidden"
             /\ Displayed(doc').visibility = "hidden" ]_vars

C21_Witness ==
  /\ obs.op = "toggle"
  /\ obs.forced = 1
  /\ obs.extracted = 1
  /\ store.visibility = "visible"
  /\ ghost.events >= 2

\* C22: position and visibility are independent: a toggle changes neither the
\* displayed nor the persisted position, and togglePosition and setPosition
\* change neither the displayed nor the persisted visibility.
C22_IndependentAxes ==
  [][ /\ obs'.op = "toggle" =>
           /\ store'.position = store.position
           /\ SidebarParts(Cur) => Displayed(doc').position = Displayed(doc).position
      /\ obs'.op \in {"togglePosition", "setPosition"} =>
           /\ store'.visibility = store.visibility
           /\ SidebarParts(Cur) => Displayed(doc').visibility = Displayed(doc).visibility ]_vars

\* the sidebar was moved to the left and hidden, and is shown again on the left
C22_Witness ==
  /\ obs.op = "toggle"
  /\ SidebarParts(Cur)
  /\ Displayed(doc) = [position |-> "left", visibility |-> "visible"]
  /\ store.position = "left"
  /\ ghost.events = 3

\* ============================================================ retry claims
RetryTimers(tm) == {i \in 1..Len(tm) : tm[i].kind = "retry"}

\* C23: every extraction of a refresh that yields no record schedules one
\* retry, due 1.5 s later, and an extraction that yields records schedules
\* none; the retry makes one more extraction and schedules nothing: when it
\* finds nothing either, 'No headings found' is shown.
C23_SingleRetry ==
  [][ /\ obs'.op \notin {"retry", "tick", "reload"} =>
           /\ Cardinality(RetryTimers(timers')) =
                 Cardinality(RetryTimers(timers)) + (obs'.extracted - obs'.builds)
           /\ obs'.extracted > obs'.builds =>
                 \E i \in RetryTimers(timers') : timers'[i].left = RETRY_MS
      /\ obs'.op = "retry" =>
           /\ Cardinality(RetryTimers(timers')) = Cardinality(RetryTimers(timers)) - 1
           /\ obs'.extracted = 0
           /\ obs'.builds = 0 => Shown("any-toc-no-headings")' ]_vars

\* a retry found nothing and gave up
C23_Witness ==
  /\ obs.op = "retry"
  /\ obs.builds = 0
  /\ Shown("any-toc-no-headings")
  /\ RetryTimers(timers) = {}

\* C24: at most one retry timer of refreshTOC is pending at any time.
C24_OneRetryPending == Cardinality(RetryTimers(timers)) <= 1

\* ============================================================ sweep claims
SweepTimers(tm) == {i \in 1..Len(tm) : tm[i].kind = "sweep"}

\* C25: at most one sweep interval is active at any time, and
\* window.tocRefreshInterval holds a handle exactly when one is active.
C25_OneSweepInterval ==
  /\ Cardinality(SweepTimers(timers)) <= 1
  /\ win.tocRefreshInterval <=> SweepTimers(timers) # {}

\* the tab was hidden and shown again, and one interval is active
C25_Witness ==
  /\ obs.op = "visibilitychange"
  /\ ~win.hidden
  /\ ghost.events >= 2
  /\ Cardinality(SweepTimers(timers)) = 1

\* what the interval callback sees when it fires
SidebarVisible == SidebarRoots(doc) # {} /\ ~(\E i \in SidebarRoots(doc) : "hidden" \in doc[i].cls)
SizeChanged ==
  /\ win.lastBodyLength # UNDEFINED
  /\ \/ BodyLength(Cur) - win.lastBodyLength > SIZE_DELTA
     \/ win.lastBodyLength - BodyLength(Cur) > SIZE_DELTA

\* C26: a sweep tick calls refreshTOC only if the sidebar is visible, the user
\* is not interacting with it, and the body size differs from the last
\* recorded size by more than 50.
C26_SweepGuard ==
  [][ (obs'.op = "sweep" /\ obs'.forced + obs'.unforced > 0) =>
        (SidebarVisible /\ ~win.isUserInteractingWithTOC /\ SizeChanged) ]_vars

\* C27: while the document is hidden no sweep interval is active.
C27_PausedWhileHidden == win.hidden => SweepTimers(timers) = {}

\* ===================================================== auto-refresh claims
\* C28: a step of an auto-refresh sequence that finds 'No headings found'
\* still shown makes a further forced refresh (a scheduled step has made fewer
\* than maxRefreshes attempts).
C28_AutoRefreshContinues ==
  [][ (obs'.op = "auto" /\ Shown("any-toc-no-headings")) => obs'.forced >= 1 ]_vars

\* ================================================= change detection claims
\* the headings of level 1 to 4 among the elements of the page
PageHeadings(d) == {i \in 1..Len(d) : ~d[i].ext /\ IsH1to4(d[i].tagName)}
DebounceStarted(tm) ==
  \E i \in 1..Len(tm) : tm[i].kind = "debounce" /\ tm[i].left = DEBOUNCE_MS

\* C29: with the observer attached, an insertion or removal starts or
\* restarts the debounce when the inserted or removed element is a heading of
\* level 1 to 4 or has one as a descendant, and otherwise starts no timer and
\* calls no refresh.
C29_RelevantExactly ==
  [][ (obs'.op \in {"insert", "remove"} /\ win.observer) =>
        IF Cardinality(PageHeadings(doc')) # Cardinality(PageHeadings(doc))
        THEN DebounceStarted(timers')
        ELSE timers' = timers /\ obs'.forced + obs'.unforced = 0 ]_vars

\* ======================================================== injection claims
\* the callbacks that ran in the step
Finished == host.tasks \ host'.tasks

\* C30: a completed load of an http(s) page sends a ping; when the ping of
\* such a check comes back, an injection is started if it failed and the tab
\* is recorded if it was answered; a tab is recorded only in a step where the
\* agent answered a ping, pinged the coordinator itself, or an injection had
\* succeeded; a failed injection of a check records nothing and answers
\* nobody.
C30_CheckOnLoad ==
  [][ /\ \A t \in Tabs :
           (host.tabs[t].loading /\ ~host'.tabs[t].loading /\ host'.tabs[t].open
              /\ host.tabs[t].injectable) => Task("ping", t, 0) \in host'.tasks
      /\ \A task \in Finished :
           (task.kind = "ping" /\ task.relay = 0) =>
              IF Listening(host, task.tab)
              THEN /\ task.tab \in host'.injectedTabs
                   /\ host'.tasks = host.tasks \ {task}
              ELSE /\ Task("inject", task.tab, 0) \in host'.tasks
                   /\ host'.injectedTabs = host.injectedTabs
      /\ \A t \in host'.injectedTabs \ host.injectedTabs :
           \E task \in Finished :
             /\ task.tab = t
             /\ \/ task.kind = "ping" /\ Listening(host, t)
                \/ task.kind = "agentPing"
                \/ task.kind = "settle"
      /\ \A task \in Finished :
           (task.kind = "inject" /\ task.relay = 0
              /\ ~(host.tabs[task.tab].open /\ host.tabs[task.tab].injectable)) =>
                /\ host'.injectedTabs = host.injectedTabs
                /\ host'.tasks = host.tasks \ {task}
                /\ host'.relays = host.relays
                /\ popup' = popup ]_vars

\* a tab navigated, its load completed, the ping failed and the injection
\* that followed succeeded: the tab is recorded though nobody clicked
C30_Witness ==
  /\ host.relays = <<>>
  /\ host.events = 1
  /\ host.tasks = {}
  /\ \E t \in Tabs : /\ host.tabs[t].open /\ ~host.tabs[t].loading
                     /\ host.tabs[t].agent /\ t \in host.injectedTabs

\* ================================================= missing sidebar claims
RefreshParts ==
  /\ getElementById(doc, "any-toc-list") # NULL
  /\ getElementById(doc, "any-toc-loading") # NULL
  /\ getElementById(doc, "any-toc-no-headings") # NULL

NoOp ==
  /\ doc' = doc
  /\ list' = list
  /\ store' = store
  /\ timers' = timers
  /\ win'.sinceRefresh = win.sinceRefresh

C32_BoundedStartup ==
  /\ popup.startup.pings <= 2
  /\ popup.startup.injections <= 1
  /\ popup.startup.pings = 2 => popup.startup.injections = 1
  /\ (popup.startup.outcome # "none" /\ popup.startup.pending = "none") =>
        popup.startup.outcome \in {"resolved", "rejected"}

\* the first ping failed, the injection succeeded and the second ping failed
\* too: the check rejected after two pings and one injection
C32_Witness ==
  /\ popup.startup.outcome = "rejected"
  /\ popup.startup.pings = 2
  /\ popup.startup.injections = 1

\* C39: a startup check that ended with the agent's pong leaves the toggle,
\* refresh and position controls enabled.
C39_ControlsEnabled ==
  popup.startup.outcome = "resolved" => popup.startup.controls = "enabled"

\* ====================================================== own sidebar claims
\* C33: no entry of the list refers to an element the extension itself
\* created (such as the title of the sidebar).
C33_NoOwnHeadings ==
  \A k \in 1..Len(list) : \A i \in 1..Len(doc) :
    doc[i].id = list[k].id => ~doc[i].ext

\* ================================================== injection record claims
\* C34: a tab recorded in injectedTabs holds a page agent that answers
\* messages.
C34_RecordedHasAgent == \A t \in host.injectedTabs : Listening(host, t)

\* C35: for one page load of a tab at most one injection is under way; in a
\* run in which no tab has navigated or been closed every injection of a tab
\* is for the same page load.
C35_OneInjectionPerLoad ==
  host.events = 0 =>
    \A t \in Tabs : Cardinality({task \in TasksOf("inject") : task.tab = t}) <= 1

\* ======================================================= sweep loss claims
\* C36: a sweep tick that records a new body size performs the extraction:
\* the refresh it calls is not dropped by the throttle.
C36_RecordedMeansExtracted ==
  [][ (obs'.op = "sweep" /\ win'.lastBodyLength # win.lastBodyLength) =>
        (obs'.dropped = 0 /\ obs'.extracted >= 1) ]_vars

\* ========================================================== pointer claims
\* C37: the user-interacting flag is set as long as the pointer is inside
\* the sidebar (after a mouseenter and before the mouseleave).
C37_FlagWhileInside == ghost.inside => win.isUserInteractingWithTOC

\* C38: the highlight of scrollToHeading is temporary: an element none of whose
\* highlight timers is still pending carries the inline background colour it
\* had before the first call (every element of the page starts with none).
C38_HighlightTemporary ==
  \A i \in 1..Len(doc) : doc[i].restore = <<>> => doc[i].backgroundColor = ""


\* ========================================================== inbox claims
\* C40: every message the coordinator's listener has received was answered
\* by the listener, or has work in flight that ends in its answer.
C40_EveryMessageAnswered ==
  \A i \in 1..Len(host.inbox) :
    host.inbox[i].response # "none" \/ host.inbox[i].relay # 0

====
